---- MODULE Spec2Model ----
(***************************************************************************)
(* A model of the fueled spine of src/trace/implementations/               *)
(* spine_fueled_neu.rs: the list of layers (MergeState), the pending       *)
(* batches, the frontiers, and the operations insert, exert, advance_by,   *)
(* distinguish_since, cursor_through and close.                            *)
(*                                                                         *)
(* Times are natural numbers (a totally ordered lattice: join is max and   *)
(* minimum is 0); a frontier (Vec<T>) is a set of times holding at most    *)
(* one element.  Layer indices are those of the code (0-based); the        *)
(* sequence `merging` holds layer i at position i + 1.                     *)
(* Option<X> is a sequence: None is << >> and Some(x) is << x >>.          *)
(***************************************************************************)
EXTENDS Integers, Sequences, FiniteSets, TLC

VARIABLES
    advance_frontier,   \* Spine.advance_frontier
    through_frontier,   \* Spine.through_frontier
    merging,            \* Spine.merging: the layers
    pending,            \* Spine.pending
    upper,              \* Spine.upper
    effort,             \* Spine.effort
    activated,          \* the activator was signalled by the last operation
    panic,              \* the message of the panic that ended the program, or NoPanic
    result,             \* what the last operation returned (cursor_through's storage)
    units,              \* history: per layer, unit introductions since its merge began
    inserted,           \* history: the updates accepted by insert, consolidated (while ~advanced)
    advanced            \* history: advance_by was called with a frontier other than [minimum]

vars == <<advance_frontier, through_frontier, merging, pending, upper, effort,
          activated, panic, result, units, inserted, advanced>>

----------------------------------------------------------------------------
(* Bounds of the model.                                                    *)

\* Spec: times of the inserted batches are 0 .. MaxTime - 1, uppers reach MaxTime.
MaxTime == 2
\* Spec: the data values are 1 .. MaxData.
MaxData == 2
\* Exert is called with an effort of 1 .. MaxExert.
MaxExert == 3
\* with_effort is called with an effort of 0 .. MaxEffort.
MaxEffort == 1
\* SpecUnit: the number of unit-sized batches inserted.
MaxUnits == 96
\* SpecUnit: the number of batches that may wait in `pending`.
MaxPending == 2
\* SpecFuel: the number of batches inserted, and the size of the larger ones.
MaxBatches == 5
MaxSize == 4
\* SpecSigned: the number of batches inserted.
MaxSigned == 3
\* SpecExert: the number of batches inserted.
MaxFew == 3
\* SpecBatcher: the times of the updates are 0 .. MaxBatcherTime, each input list
\* holds at most MaxList updates, and a chunk holds MaxChunk updates.
MaxBatcherTime == 2
MaxList == 3
MaxChunk == 2

----------------------------------------------------------------------------
(* Program constants.                                                      *)

\* <T as Lattice>::minimum() and Default::default() of the time type.
Minimum == 0
\* The fuel paid for each introduced record: `8 << batch_index`.
FuelPerRecord == 8
\* isize::max_value(), the fuel of MergeVariant::complete (scaled to TLC's integers).
IsizeMax == 2147483647

NoPanic == "none"
None == << >>
Some(x) == << x >>

----------------------------------------------------------------------------
(* Times, frontiers, updates.                                              *)

Max(a, b) == IF a >= b THEN a ELSE b

\* `a.iter().all(|t1| b.iter().any(|t2| t2.less_equal(t1)))`: every element of
\* frontier a is in advance of frontier b.
AllInAdvance(a, b) == \A t1 \in a : \E t2 \in b : t2 <= t1

\* (data, time) order of two updates <<data, time, diff>>.
KeyLess(u, v) == u[1] < v[1] \/ (u[1] = v[1] /\ u[2] < v[2])

Range(s) == { s[i] : i \in 1 .. Len(s) }

RECURSIVE Vec(_, _)
\* The sequence f[1], ..., f[n], built element by element.
Vec(f, n) == IF n = 0 THEN << >> ELSE Append(Vec(f, n - 1), f[n])

RECURSIVE SumDiffs(_, _, _)
\* The plus_equals sum of the diffs of the updates of s with key (d, t), from index i on.
SumDiffs(s, k, i) ==
    IF i > Len(s) THEN 0
    ELSE (IF s[i][1] = k[1] /\ s[i][2] = k[2] THEN s[i][3] ELSE 0) + SumDiffs(s, k, i + 1)

\* The (data, time) keys of s whose diffs do not sum to zero.
LiveKeys(s) == { k \in { <<u[1], u[2]>> : u \in Range(s) } : SumDiffs(s, k, 1) # 0 }

\* The position of each key of `live` in (data, time) order, from 0.
KeyRank(live) == [ k \in live |-> Cardinality({ j \in live : KeyLess(j, k) }) ]

\* The keys of `live` in the order of `rank`, each with the sum of its diffs in s.
Ranked(s, live, rank) ==
    Vec([ i \in 1 .. Cardinality(live) |->
            (LET k == CHOOSE j \in live : rank[j] = i - 1
             IN  <<k[1], k[2], SumDiffs(s, k, 1)>>) ],
        Cardinality(live))

\* The keys of `live` sorted, each with the sum of its diffs in s.
Sorted(s, live) == Ranked(s, live, KeyRank(live))

\* Consolidation: sorted by (data, time), equal keys combined, zero sums dropped.
Consolidate(s) == Sorted(s, LiveKeys(s))

\* Each time replaced by its join with every element of `since`.
AdvanceTimes(s, since) ==
    Vec([ i \in 1 .. Len(s) |->
            <<s[i][1], IF since = {} THEN s[i][2]
                       ELSE Max(s[i][2], CHOOSE t \in since : \A o \in since : o <= t), s[i][3]>> ],
        Len(s))

----------------------------------------------------------------------------
(* The batch contract (trait Batch, BatchReader, Merger), which the spine  *)
(* is generic over.  A batch is [lower, upper, since, updates]; updates is *)
(* a sequence of <<data, time, diff>> sorted by (data, time), with no      *)
(* repeated key and no zero diff.                                          *)

Batch(lower, upper_, since, updates) ==
    [lower |-> lower, upper |-> upper_, since |-> since, updates |-> updates]

\* Batch::len: the number of stored updates.
BatchLen(b) == Len(b.updates)

\* Batch::is_empty: true iff lower == upper.
BatchIsEmpty(b) == b.lower = b.upper

\* Batch::begin_merge: a merger that still owes one unit of work per input update.
Batch_begin_merge(b1, b2) == [remaining |-> BatchLen(b1) + BatchLen(b2)]

\* Merger::work: consumes fuel proportional to the work done, and stops when the
\* fuel is used up or the merge is complete.
Merger_work(merger, fuel) ==
    IF fuel <= 0 THEN [merger |-> merger, fuel |-> fuel]
    ELSE IF merger.remaining <= fuel
    THEN [merger |-> [remaining |-> 0], fuel |-> fuel - merger.remaining]
    ELSE [merger |-> [remaining |-> merger.remaining - fuel], fuel |-> 0]

\* Merger::done: the merged batch. Equal (data, time) entries are combined, zero
\* sums are dropped, and times are advanced to the frontier the merger was given.
Merger_done(b1, b2, frontier) ==
    IF frontier = None
    THEN Batch(b1.lower, b2.upper, b1.since, Consolidate(b1.updates \o b2.updates))
    ELSE Batch(b1.lower, b2.upper, frontier[1],
               Consolidate(AdvanceTimes(b1.updates \o b2.updates, frontier[1])))

\* Builder::done on a builder nothing was pushed to.
Builder_done(lower, upper_, since) == Batch(lower, upper_, since, << >>)

\* CursorList over the storage of cursor_through: the per-batch cursors
\* multiplexed into one stream sorted by (data, time), equal keys accumulated.
RECURSIVE Concat(_, _)
Concat(batches, i) ==
    IF i > Len(batches) THEN << >> ELSE batches[i].updates \o Concat(batches, i + 1)

CursorList(storage) == Consolidate(Concat(storage, 1))

----------------------------------------------------------------------------
(* usize helpers.                                                          *)

RECURSIVE Pow2(_)
Pow2(n) == IF n = 0 THEN 1 ELSE 2 * Pow2(n - 1)

RECURSIVE NextPow2From(_, _)
NextPow2From(n, p) == IF p >= n THEN p ELSE NextPow2From(n, 2 * p)

\* usize::next_power_of_two: the smallest power of two >= n (1 for n = 0).
next_power_of_two(n) == NextPow2From(n, 1)

RECURSIVE trailing_zeros(_)
\* usize::trailing_zeros of a non-zero number.
trailing_zeros(n) == IF n % 2 = 1 THEN 0 ELSE 1 + trailing_zeros(n \div 2)

----------------------------------------------------------------------------
(* enum MergeState and enum MergeVariant.                                  *)

Vacant == [tag |-> "Vacant"]
Single(batch) == [tag |-> "Single", batch |-> batch]
Double(variant) == [tag |-> "Double", variant |-> variant]

InProgress(b1, b2, frontier, merger) ==
    [tag |-> "InProgress", b1 |-> b1, b2 |-> b2, frontier |-> frontier, merger |-> merger]
Complete(batch) == [tag |-> "Complete", batch |-> batch]

is_vacant(ms) == ms.tag = "Vacant"
is_single(ms) == ms.tag = "Single"
is_double(ms) == ms.tag = "Double"
is_complete(ms) == ms.tag = "Double" /\ ms.variant.tag = "Complete"
is_in_progress(ms) == ms.tag = "Double" /\ ms.variant.tag = "InProgress"

\* MergeState::len: the number of actual updates contained in the level.
MergeState_len(ms) ==
    IF is_single(ms) /\ ms.batch # None THEN BatchLen(ms.batch[1])
    ELSE IF is_in_progress(ms) THEN BatchLen(ms.variant.b1) + BatchLen(ms.variant.b2)
    ELSE IF is_complete(ms) /\ ms.variant.batch # None THEN BatchLen(ms.variant.batch[1])
    ELSE 0

non_trivial(ms) ==
    IF is_complete(ms) /\ ms.variant.batch = None THEN FALSE
    ELSE IF is_single(ms) /\ ms.batch = None THEN FALSE
    ELSE IF is_vacant(ms) THEN FALSE
    ELSE TRUE

\* Mutant of MergeVariant_worked: the merge is completed as soon as the merger
\* has no work left, whatever fuel remains.
MergeVariant_worked_done(variant, w) ==
    IF w.merger.remaining = 0
    THEN [variant |-> Complete(Some(Merger_done(variant.b1, variant.b2, variant.frontier))),
          fuel |-> w.fuel]
    ELSE [variant |-> InProgress(variant.b1, variant.b2, variant.frontier, w.merger),
          fuel |-> w.fuel]

\* MergeVariant::work after `merge.work(b1, b2, &frontier, fuel)` has left w:
\* `if *fuel > 0 { Complete(Some(merge.done())) } else { InProgress(b1, b2, frontier, merge) }`.
MergeVariant_worked(variant, w) ==
    IF w.fuel > 0
    THEN [variant |-> Complete(Some(Merger_done(variant.b1, variant.b2, variant.frontier))),
          fuel |-> w.fuel]
    ELSE [variant |-> InProgress(variant.b1, variant.b2, variant.frontier, w.merger),
          fuel |-> w.fuel]

\* MergeVariant::work: returns the variant and the fuel left.
MergeVariant_work(variant, fuel) ==
    IF variant.tag = "InProgress"
    THEN MergeVariant_worked(variant, Merger_work(variant.merger, fuel))
    ELSE [variant |-> variant, fuel |-> fuel]

\* MergeVariant::complete after `self.work(&mut fuel)` has left w:
\* `if let Complete(batch) = self { batch } else { panic!(..) }`.
MergeVariant_completed(w) ==
    IF w.variant.tag = "Complete"
    THEN [batch |-> w.variant.batch, panic |-> NoPanic]
    ELSE [batch |-> None, panic |-> "Failed to complete a merge!"]

\* MergeVariant::complete: returns the batch, or the panic.
MergeVariant_complete(variant) == MergeVariant_completed(MergeVariant_work(variant, IsizeMax))

\* MergeState::complete: the layer is left Vacant; returns the batch, or the panic.
MergeState_complete(ms) ==
    IF is_vacant(ms) THEN [batch |-> None, panic |-> NoPanic]
    ELSE IF is_single(ms) THEN [batch |-> ms.batch, panic |-> NoPanic]
    ELSE MergeVariant_complete(ms.variant)

\* MergeState::work: returns the layer after the work.
MergeState_work(ms, fuel) ==
    IF is_double(ms) THEN Double(MergeVariant_work(ms.variant, fuel).variant) ELSE ms

\* Mutant of begin_merge: the merge in progress is not given the frontier.
begin_merge_nofrontier(batch1, batch2, frontier) ==
    IF batch1 # None /\ batch2 # None
    THEN IF batch1[1].upper = batch2[1].lower
         THEN [state |-> Double(InProgress(batch1[1], batch2[1], None,
                                           Batch_begin_merge(batch1[1], batch2[1]))),
               panic |-> NoPanic]
         ELSE [state |-> Vacant, panic |-> "assertion failed: batch1.upper() == batch2.lower()"]
    ELSE IF batch1 = None
    THEN [state |-> Double(Complete(batch2)), panic |-> NoPanic]
    ELSE [state |-> Double(Complete(batch1)), panic |-> NoPanic]

\* MergeState::begin_merge: returns the layer, or the panic of its assertion.
begin_merge(batch1, batch2, frontier) ==
    IF batch1 # None /\ batch2 # None
    THEN IF batch1[1].upper = batch2[1].lower
         THEN [state |-> Double(InProgress(batch1[1], batch2[1], frontier,
                                           Batch_begin_merge(batch1[1], batch2[1]))),
               panic |-> NoPanic]
         ELSE [state |-> Vacant, panic |-> "assertion failed: batch1.upper() == batch2.lower()"]
    ELSE IF batch1 = None
    THEN [state |-> Double(Complete(batch2)), panic |-> NoPanic]
    ELSE [state |-> Double(Complete(batch1)), panic |-> NoPanic]

\* Mutant of MergeState_insert: the arguments of begin_merge are swapped.
MergeState_insert_swapped(ms, batch, frontier) ==
    IF is_vacant(ms) THEN [state |-> Single(batch), panic |-> NoPanic]
    ELSE IF is_single(ms) THEN begin_merge(batch, ms.batch, frontier)
    ELSE [state |-> ms, panic |-> "Attempted to insert batch into incomplete merge!"]

\* MergeState::insert: returns the layer, or the panic.
MergeState_insert(ms, batch, frontier) ==
    IF is_vacant(ms) THEN [state |-> Single(batch), panic |-> NoPanic]
    ELSE IF is_single(ms) THEN begin_merge(ms.batch, batch, frontier)
    ELSE [state |-> ms, panic |-> "Attempted to insert batch into incomplete merge!"]

----------------------------------------------------------------------------
(* struct Spine.  The operations below take and return the spine as a      *)
(* record s of its fields; a panic is recorded in s.panic and ends the     *)
(* operation (every later step leaves s as it is).                         *)

Layers(s) == 0 .. Len(s.merging) - 1
Layer(s, i) == s.merging[i + 1]

RECURSIVE Drain(_, _)
\* The layers m with the layers 0 .. index - 1 left Vacant (each was completed).
Drain(m, index) == IF index = 0 THEN m ELSE Drain([m EXCEPT ![index] = Vacant], index - 1)

RECURSIVE Pad(_, _)
\* `while self.merging.len() <= index { self.merging.push(MergeState::Vacant); }`
Pad(m, index) == IF Len(m) <= index THEN Pad(Append(m, Vacant), index) ELSE m

\* Mutant of reduced: only a merge in progress makes the trace not reduced, a
\* completed Double does not.
reduced_lenient(s) ==
    /\ \A i \in Layers(s) : ~is_in_progress(Layer(s, i))
    /\ Cardinality({ i \in Layers(s) : non_trivial(Layer(s, i)) }) <= 1

\* Spine::reduced
reduced(s) ==
    /\ \A i \in Layers(s) : ~is_double(Layer(s, i))
    /\ Cardinality({ i \in Layers(s) : non_trivial(Layer(s, i)) }) <= 1

\* insert_at once `self.merging[index].insert(batch, frontier)` has returned r
\* for the padded layers m.
InsertedAt(s, m, index, r) ==
    IF r.panic # NoPanic THEN [s EXCEPT !.panic = r.panic]
    ELSE [s EXCEPT !.merging = [m EXCEPT ![index + 1] = r.state]]

\* Mutant of InsertAtLayer: the merge is given no frontier.
InsertAtLayer_nofrontier(s, m, batch, index) ==
    InsertedAt(s, m, index, MergeState_insert(m[index + 1], batch, None))

\* insert_at on the padded layers m.
InsertAtLayer(s, m, batch, index) ==
    InsertedAt(s, m, index, MergeState_insert(m[index + 1], batch, Some(s.advance_frontier)))

\* Mutant of insert_at: the layers are padded one layer too far.
insert_at_padded(s, batch, index) ==
    IF s.panic # NoPanic THEN s ELSE InsertAtLayer(s, Pad(s.merging, index + 1), batch, index)

\* Spine::insert_at
insert_at(s, batch, index) ==
    IF s.panic # NoPanic THEN s ELSE InsertAtLayer(s, Pad(s.merging, index), batch, index)

\* `let complete = self.merging[index].complete(); self.insert_at(complete, index + 1);`
\* where complete() has returned c and left layer index Vacant.
Promote(s, c, index) ==
    insert_at([s EXCEPT !.merging[index + 1] = Vacant, !.panic = c.panic], c.batch, index + 1)

RECURSIVE ApplyFuelFrom(_, _, _, _)
\* Mutant of ApplyFuelAt: after a promotion the loop goes on two layers up, the
\* layer the result was promoted to gets no fuel in this pass.
ApplyFuelAt_late(s, worked, fuel, index, len) ==
    IF is_complete(worked)
    THEN ApplyFuelFrom(Promote(s, MergeState_complete(worked), index), fuel, index + 2, len)
    ELSE ApplyFuelFrom([s EXCEPT !.merging[index + 1] = worked], fuel, index + 1, len)

\* One round of apply_fuel's loop, after `self.merging[index].work(&mut fuel)` has
\* left the layer as `worked`, and the rounds after it.
ApplyFuelAt(s, worked, fuel, index, len) ==
    IF is_complete(worked)
    THEN ApplyFuelFrom(Promote(s, MergeState_complete(worked), index), fuel, index + 1, len)
    ELSE ApplyFuelFrom([s EXCEPT !.merging[index + 1] = worked], fuel, index + 1, len)

RECURSIVE ApplyFuelFrom_nopromote(_, _, _, _)
\* Mutant of ApplyFuelFrom: a completed merge is left in its layer.
ApplyFuelFrom_nopromote(s, fuel, index, len) ==
    IF index >= len \/ s.panic # NoPanic THEN s
    ELSE LET worked == MergeState_work(Layer(s, index), fuel)
             s1 == [s EXCEPT !.merging[index + 1] = worked]
         IN  ApplyFuelFrom_nopromote(s1, fuel, index + 1, len)

\* Mutant of ApplyFuelFrom: the layers share the fuel, each layer is offered what
\* the layers below it have left.
ApplyFuelFrom_shared(s, fuel, index, len) ==
    IF index >= len \/ s.panic # NoPanic THEN s
    ELSE ApplyFuelAt(s, MergeState_work(Layer(s, index), fuel),
                     IF is_double(Layer(s, index))
                     THEN MergeVariant_work(Layer(s, index).variant, fuel).fuel ELSE fuel,
                     index, len)

\* apply_fuel's loop, `for index in 0 .. self.merging.len()`, from index on.
ApplyFuelFrom(s, fuel, index, len) ==
    IF index >= len \/ s.panic # NoPanic THEN s
    ELSE ApplyFuelAt(s, MergeState_work(Layer(s, index), fuel), fuel, index, len)

\* Mutant of apply_fuel: the loop starts at layer 1, layer 0 gets no fuel.
apply_fuel_skip(s, fuel) ==
    [spine |-> ApplyFuelFrom(s, fuel, 1, Len(s.merging)), fuel |-> fuel]

\* Spine::apply_fuel: every layer works on its own copy of the fuel; returns the
\* spine and the caller's fuel.
apply_fuel(s, fuel) ==
    [spine |-> ApplyFuelFrom(s, fuel, 0, Len(s.merging)), fuel |-> fuel]

RECURSIVE RollUpFold(_, _, _, _)
\* The fold's step once `.complete()` of the merge has returned `done`.
RollUpDone(m, i, index, done) ==
    IF done.panic # NoPanic THEN [batch |-> None, panic |-> done.panic]
    ELSE RollUpFold(m, i + 1, index, done.batch)

\* The fold's step once `MergeState::begin_merge(Some(batch), merge, None)` has returned bm.
RollUpMerge(m, i, index, bm) ==
    IF bm.panic # NoPanic THEN [batch |-> None, panic |-> bm.panic]
    ELSE RollUpDone(m, i, index, MergeState_complete(bm.state))

\* The fold's step for layer i, whose `level.complete()` has returned c.
RollUpStep(m, i, index, merge, c) ==
    IF c.panic # NoPanic THEN [batch |-> None, panic |-> c.panic]
    ELSE IF c.batch = None THEN RollUpFold(m, i + 1, index, merge)
    ELSE RollUpMerge(m, i, index, begin_merge(c.batch, merge, None))

\* roll_up's `flat_map(|level| level.complete()).fold(None, ...)` over the layers
\* i .. index - 1: returns the merged batch, or the panic.
RollUpFold(m, i, index, merge) ==
    IF i >= index THEN [batch |-> merge, panic |-> NoPanic]
    ELSE RollUpStep(m, i, index, merge, MergeState_complete(m[i + 1]))

\* Mutant of roll_up: the layers are drained and their merged batch is dropped.
roll_up_lossy(s, index) ==
    IF s.panic # NoPanic THEN s
    ELSE LET m == Pad(s.merging, index)
         IN  [s EXCEPT !.merging = Drain(m, index)]

\* Mutant of roll_up: the lower layers are left as they are.
roll_up_skipped(s, index) ==
    IF s.panic # NoPanic THEN s ELSE [s EXCEPT !.merging = Pad(s.merging, index)]

\* roll_up after `self.insert_at(merged, index)` has left s1:
\* `if self.merging[index].is_double() { complete(); insert_at(merged, index + 1) }`.
RollUpCascade(s1, index) ==
    IF s1.panic = NoPanic /\ is_double(Layer(s1, index))
    THEN Promote(s1, MergeState_complete(Layer(s1, index)), index)
    ELSE s1

\* roll_up once the layers m below index are drained into the merged batch f.
RollUpInsert(s, m, index, f) ==
    RollUpCascade(
        insert_at([s EXCEPT !.merging = Drain(m, index), !.panic = f.panic], f.batch, index),
        index)

\* roll_up on the padded layers m.
RollUpLayers(s, m, index) ==
    IF \E i \in 0 .. index - 1 : ~is_vacant(m[i + 1])
    THEN RollUpInsert(s, m, index, RollUpFold(m, 0, index, None))
    ELSE [s EXCEPT !.merging = m]

\* Spine::roll_up
roll_up(s, index) ==
    IF s.panic # NoPanic THEN s ELSE RollUpLayers(s, Pad(s.merging, index), index)

RECURSIVE TidyLoop_le(_)
\* Mutant of TidyLoop: the size test is `<=` instead of `<`.
TidyLoop_le(m) ==
    LET length == Len(m)
    IN  IF /\ trailing_zeros(next_power_of_two(MergeState_len(m[length]))) <= length - 1
           /\ length > 1
           /\ is_vacant(m[length - 1])
        THEN TidyLoop_le([SubSeq(m, 1, length - 1) EXCEPT ![length - 1] = m[length]])
        ELSE m

RECURSIVE TidyLoop_over(_)
\* Mutant of TidyLoop: the layer below is not tested for being Vacant.
TidyLoop_over(m) ==
    LET length == Len(m)
    IN  IF /\ trailing_zeros(next_power_of_two(MergeState_len(m[length]))) < length - 1
           /\ length > 1
        THEN TidyLoop_over([SubSeq(m, 1, length - 1) EXCEPT ![length - 1] = m[length]])
        ELSE m

RECURSIVE TidyLoop(_)
\* tidy_layers' while loop.
TidyLoop(m) ==
    LET length == Len(m)
    IN  IF /\ trailing_zeros(next_power_of_two(MergeState_len(m[length]))) < length - 1
           /\ length > 1
           /\ is_vacant(m[length - 1])
        THEN TidyLoop([SubSeq(m, 1, length - 1) EXCEPT ![length - 1] = m[length]])
        ELSE m

\* Spine::tidy_layers
tidy_layers(s) ==
    IF s.panic # NoPanic THEN s
    ELSE IF is_single(s.merging[Len(s.merging)])
    THEN [s EXCEPT !.merging = TidyLoop(s.merging)]
    ELSE s

\* History: for each layer with a merge in progress, the number of unit-sized
\* batches introduced at layer 0 since that merge began.
RecordUnits(before, after, batch, batch_index) ==
    LET unit == IF batch # None /\ batch_index = 0 /\ BatchLen(batch[1]) = 1 THEN 1 ELSE 0
        same(i) == /\ i <= Len(before.merging)
                   /\ is_in_progress(before.merging[i])
                   /\ before.merging[i].variant.b1 = after.merging[i].variant.b1
                   /\ before.merging[i].variant.b2 = after.merging[i].variant.b2
    IN  [after EXCEPT !.units =
            Vec([ i \in 1 .. Len(after.merging) |->
                    IF is_in_progress(after.merging[i]) /\ same(i)
                    THEN before.units[i] + unit ELSE 0 ],
                Len(after.merging))]

\* Mutant of introduce_batch: the fuel is `1 << batch_index`, not `8 << batch_index`.
introduce_batch_unfueled(s, batch, batch_index) ==
    IF s.panic # NoPanic THEN s
    ELSE LET fuel == Pow2(batch_index) * s.effort
             s1 == apply_fuel(s, fuel).spine
             s2 == roll_up(s1, batch_index)
             s3 == insert_at(s2, batch, batch_index)
             s4 == tidy_layers(s3)
         IN  RecordUnits(s, s4, batch, batch_index)

\* Spine::introduce_batch
introduce_batch(s, batch, batch_index) ==
    IF s.panic # NoPanic THEN s
    ELSE LET fuel == (FuelPerRecord * Pow2(batch_index)) * s.effort
             s1 == apply_fuel(s, fuel).spine
             s2 == roll_up(s1, batch_index)
             s3 == insert_at(s2, batch, batch_index)
             s4 == tidy_layers(s3)
         IN  RecordUnits(s, s4, batch, batch_index)

RECURSIVE consider_merges_linear(_)
\* Mutant of consider_merges: the layer is the rounded size, not its logarithm.
consider_merges_linear(s) ==
    IF /\ s.panic = NoPanic
       /\ Len(s.pending) > 0
       /\ AllInAdvance(s.through_frontier, s.pending[1].upper)
    THEN LET batch == s.pending[1]
             index == next_power_of_two(BatchLen(batch))
             s1 == introduce_batch([s EXCEPT !.pending = Tail(s.pending)], Some(batch), index)
         IN  consider_merges_linear(IF s1.panic = NoPanic /\ ~reduced(s1)
                                    THEN [s1 EXCEPT !.activated = TRUE] ELSE s1)
    ELSE s

\* `if let Some(activator) = &self.activator { activator.activate(); }`
Activate(s) == IF s.panic = NoPanic THEN [s EXCEPT !.activated = TRUE] ELSE s

\* `if !self.reduced() { activate }`
ActivateUnlessReduced(s) == IF ~reduced(s) THEN Activate(s) ELSE s

RECURSIVE consider_merges_reversed(_)
\* Mutant of consider_merges: the head is released while its upper is in advance
\* of through_frontier.
consider_merges_reversed(s) ==
    IF /\ s.panic = NoPanic
       /\ Len(s.pending) > 0
       /\ AllInAdvance(s.pending[1].upper, s.through_frontier)
    THEN LET index == next_power_of_two(BatchLen(s.pending[1]))
         IN  consider_merges_reversed(ActivateUnlessReduced(
                 introduce_batch([s EXCEPT !.pending = Tail(s.pending)], Some(s.pending[1]),
                                 trailing_zeros(index))))
    ELSE s

RECURSIVE consider_merges_floor(_)
\* Mutant of consider_merges: the layer is the logarithm of the size rounded down.
consider_merges_floor(s) ==
    IF /\ s.panic = NoPanic
       /\ Len(s.pending) > 0
       /\ AllInAdvance(s.through_frontier, s.pending[1].upper)
    THEN LET index == next_power_of_two(BatchLen(s.pending[1]) + 1) \div 2
         IN  consider_merges_floor(ActivateUnlessReduced(
                 introduce_batch([s EXCEPT !.pending = Tail(s.pending)], Some(s.pending[1]),
                                 IF index = 0 THEN 0 ELSE trailing_zeros(index))))
    ELSE s

RECURSIVE consider_merges(_)
\* Spine::consider_merges
consider_merges(s) ==
    IF /\ s.panic = NoPanic
       /\ Len(s.pending) > 0
       /\ AllInAdvance(s.through_frontier, s.pending[1].upper)
    THEN LET index == next_power_of_two(BatchLen(s.pending[1]))
         IN  consider_merges(ActivateUnlessReduced(
                 introduce_batch([s EXCEPT !.pending = Tail(s.pending)], Some(s.pending[1]),
                                 trailing_zeros(index))))
    ELSE s

\* Mutant of insert: the batch is recorded before its lower bound is checked.
insert_late(s, batch) ==
    IF batch.lower = batch.upper
    THEN [s EXCEPT !.panic = "assertion failed: batch.lower() != batch.upper()"]
    ELSE LET s1 == [s EXCEPT !.upper = batch.upper, !.pending = Append(s.pending, batch)]
         IN  IF batch.lower # s.upper
             THEN [s1 EXCEPT !.panic = "assertion failed: batch.lower() == self.upper"]
             ELSE consider_merges(s1)

\* Mutant of insert: only the second assertion is made, a batch whose lower and
\* upper are equal is taken if it continues the trace.
insert_unguarded(s, batch) ==
    IF batch.lower # s.upper
    THEN [s EXCEPT !.panic = "assertion failed: batch.lower() == self.upper"]
    ELSE consider_merges([s EXCEPT !.upper = batch.upper,
                                   !.pending = Append(s.pending, batch)])

\* Spine::insert
insert(s, batch) ==
    IF batch.lower = batch.upper
    THEN [s EXCEPT !.panic = "assertion failed: batch.lower() != batch.upper()"]
    ELSE IF batch.lower # s.upper
    THEN [s EXCEPT !.panic = "assertion failed: batch.lower() == self.upper"]
    ELSE consider_merges([s EXCEPT !.upper = batch.upper,
                                   !.pending = Append(s.pending, batch)])

\* Mutant of close: the final batch is built with the upper bound self.upper.
close_degenerate(s) ==
    IF s.upper # {} THEN insert(s, Builder_done(s.upper, s.upper, s.upper)) ELSE s

\* Spine::close
close(s) ==
    IF s.upper # {} THEN insert(s, Builder_done(s.upper, {}, s.upper)) ELSE s

\* Mutant of exert: the level is the position of the highest set bit of effort.
exert_floor(s, effort_) ==
    IF ~reduced(s)
    THEN LET level == trailing_zeros(next_power_of_two(effort_ + 1)) - 1
         IN  Activate(introduce_batch(s, None, level))
    ELSE s

\* Mutant of exert: the activator is signalled, no batch is introduced.
exert_idle(s, effort_) == IF ~reduced(s) THEN Activate(s) ELSE s

\* Mutant of exert: the activator is signalled whether the trace is reduced or not.
exert_eager(s, effort_) ==
    IF ~reduced(s)
    THEN LET level == trailing_zeros(next_power_of_two(effort_))
         IN  Activate(introduce_batch(s, None, level))
    ELSE Activate(s)

\* Spine::exert
exert(s, effort_) ==
    IF ~reduced(s)
    THEN LET level == trailing_zeros(next_power_of_two(effort_))
         IN  Activate(introduce_batch(s, None, level))
    ELSE s

\* Mutant of advance_by: on the empty frontier `self.merging.pop()` stands for
\* `self.merging.clear()`.
advance_by_pop(s, frontier) ==
    IF frontier = {}
    THEN [s EXCEPT !.advance_frontier = frontier, !.pending = << >>,
                   !.merging = SubSeq(s.merging, 1, Len(s.merging) - 1)]
    ELSE [s EXCEPT !.advance_frontier = frontier]

\* Mutant of advance_by: on the empty frontier only pending is cleared.
advance_by_keep(s, frontier) ==
    IF frontier = {}
    THEN [s EXCEPT !.advance_frontier = frontier, !.pending = << >>]
    ELSE [s EXCEPT !.advance_frontier = frontier]

\* Spine::advance_by
advance_by(s, frontier) ==
    IF frontier = {}
    THEN [s EXCEPT !.advance_frontier = frontier, !.pending = << >>, !.merging = << >>,
                   !.units = << >>]
    ELSE [s EXCEPT !.advance_frontier = frontier]

\* Mutant of distinguish_since: a frontier that is not less or equal to
\* advance_frontier is not recorded.
distinguish_since_guarded(s, frontier) ==
    IF AllInAdvance(s.advance_frontier, frontier)
    THEN consider_merges([s EXCEPT !.through_frontier = frontier])
    ELSE consider_merges(s)

\* Spine::distinguish_since
distinguish_since(s, frontier) ==
    consider_merges([s EXCEPT !.through_frontier = frontier])

\* Spine::with_effort
with_effort(effort_) ==
    [advance_frontier |-> {Minimum},
     through_frontier |-> {Minimum},
     merging |-> << >>,
     pending |-> << >>,
     upper |-> {Minimum},
     effort |-> IF effort_ = 0 THEN 1 ELSE effort_,
     activated |-> FALSE,
     panic |-> NoPanic,
     units |-> << >>]

RECURSIVE LayerStorage_first(_, _)
\* Mutant of LayerStorage: of a merge in progress only batch1 is pushed.
LayerStorage_first(s, i) ==
    IF i < 0 THEN << >>
    ELSE LET ms == Layer(s, i)
             here ==
                IF is_in_progress(ms)
                THEN (IF ~BatchIsEmpty(ms.variant.b1) THEN <<ms.variant.b1>> ELSE << >>)
                ELSE IF is_complete(ms) /\ ms.variant.batch # None
                THEN (IF ~BatchIsEmpty(ms.variant.batch[1]) THEN ms.variant.batch ELSE << >>)
                ELSE IF is_single(ms) /\ ms.batch # None
                THEN (IF ~BatchIsEmpty(ms.batch[1]) THEN ms.batch ELSE << >>)
                ELSE << >>
         IN  here \o LayerStorage_first(s, i - 1)

RECURSIVE LayerStorage(_, _)
\* cursor_through's loop `for merge_state in self.merging.iter().rev()`, from layer i down.
LayerStorage(s, i) ==
    IF i < 0 THEN << >>
    ELSE LET ms == Layer(s, i)
             here ==
                IF is_in_progress(ms)
                THEN (IF ~BatchIsEmpty(ms.variant.b1) THEN <<ms.variant.b1>> ELSE << >>)
                     \o (IF ~BatchIsEmpty(ms.variant.b2) THEN <<ms.variant.b2>> ELSE << >>)
                ELSE IF is_complete(ms) /\ ms.variant.batch # None
                THEN (IF ~BatchIsEmpty(ms.variant.batch[1]) THEN ms.variant.batch ELSE << >>)
                ELSE IF is_single(ms) /\ ms.batch # None
                THEN (IF ~BatchIsEmpty(ms.batch[1]) THEN ms.batch ELSE << >>)
                ELSE << >>
         IN  here \o LayerStorage(s, i - 1)

\* Mutant of PendingBatch: a batch that is cut by upper is skipped, not refused.
PendingBatch_nocheck(batch, upper_, rest) ==
    IF BatchIsEmpty(batch) THEN rest
    ELSE IF AllInAdvance(upper_, batch.upper)
    THEN [storage |-> <<batch>> \o rest.storage, panic |-> rest.panic]
    ELSE rest

\* One round of cursor_through's loop over self.pending: the batch is skipped,
\* panics, or is included before `rest`, the outcome of the later rounds.
PendingBatch(batch, upper_, rest) ==
    IF BatchIsEmpty(batch) THEN rest
    ELSE IF /\ AllInAdvance(upper_, batch.lower) # AllInAdvance(upper_, batch.upper)
            /\ upper_ # batch.lower
    THEN [storage |-> << >>, panic |-> "cursor_through: upper straddles batch"]
    ELSE IF AllInAdvance(upper_, batch.upper)
    THEN [storage |-> <<batch>> \o rest.storage, panic |-> rest.panic]
    ELSE rest

RECURSIVE PendingStorage(_, _, _)
\* cursor_through's loop `for batch in self.pending.iter()`, from position i on:
\* returns the batches included, or the panic.
PendingStorage(s, upper_, i) ==
    IF i > Len(s.pending) THEN [storage |-> << >>, panic |-> NoPanic]
    ELSE PendingBatch(s.pending[i], upper_, PendingStorage(s, upper_, i + 1))

\* Mutant of CursorStorage: the batches of the loop over self.merging are dropped.
CursorStorage_pending(s, p) ==
    IF p.panic # NoPanic THEN [storage |-> None, panic |-> p.panic]
    ELSE [storage |-> Some(p.storage), panic |-> NoPanic]

\* Mutant of CursorStorage: the batches of the loop over self.pending are dropped.
CursorStorage_layers(s, p) ==
    IF p.panic # NoPanic THEN [storage |-> None, panic |-> p.panic]
    ELSE [storage |-> Some(LayerStorage(s, Len(s.merging) - 1)), panic |-> NoPanic]

\* cursor_through once the loop over self.pending has returned p.
CursorStorage(s, p) ==
    IF p.panic # NoPanic THEN [storage |-> None, panic |-> p.panic]
    ELSE [storage |-> Some(LayerStorage(s, Len(s.merging) - 1) \o p.storage),
          panic |-> NoPanic]

\* Mutant of cursor_through: upper is not compared with through_frontier.
cursor_through_unchecked(s, upper_) ==
    IF ~(Cardinality(s.advance_frontier) > 0)
    THEN [storage |-> None, panic |-> "assertion failed: self.advance_frontier.len() > 0"]
    ELSE CursorStorage(s, PendingStorage(s, upper_, 1))

\* Spine::cursor_through: returns the storage of the cursor (Some), or the panic.
cursor_through(s, upper_) ==
    IF ~(Cardinality(s.advance_frontier) > 0)
    THEN [storage |-> None, panic |-> "assertion failed: self.advance_frontier.len() > 0"]
    ELSE IF ~AllInAdvance(upper_, s.through_frontier)
    THEN [storage |-> None, panic |-> "assertion failed: upper >= self.through_frontier"]
    ELSE CursorStorage(s, PendingStorage(s, upper_, 1))

RECURSIVE LayerBatches(_, _)
\* map_batches' loop `for batch in self.merging.iter().rev()`, from layer i down.
LayerBatches(s, i) ==
    IF i < 0 THEN << >>
    ELSE LET ms == Layer(s, i)
             here == IF is_in_progress(ms) THEN <<ms.variant.b1, ms.variant.b2>>
                     ELSE IF is_complete(ms) THEN ms.variant.batch
                     ELSE IF is_single(ms) THEN ms.batch
                     ELSE << >>
         IN  here \o LayerBatches(s, i - 1)

\* Spine::map_batches: the batches the visitor is called with, in order.
map_batches(s) == LayerBatches(s, Len(s.merging) - 1) \o s.pending

----------------------------------------------------------------------------
(* The merger of the merge batcher (merge_batcher_flat.rs).  An update is  *)
(* <<data, time, diff>>; a chunk (FlatStack) is its updates and the         *)
(* capacity of its index vector.  The time type is a product of two         *)
(* coordinates: the time t stands for <<t \div 2, t % 2>>, its Ord is the   *)
(* order of the integers (lexicographic) and its PartialOrder the product   *)
(* order.  An antichain is the set of its elements.                         *)

\* The coordinates of the time t.
Product(t) == <<t \div 2, t % 2>>

\* PartialOrder::less_equal of the time type.
less_equal(t1, t2) == Product(t1)[1] <= Product(t2)[1] /\ Product(t1)[2] <= Product(t2)[2]

\* AntichainRef::less_equal: some element of the frontier is less or equal to time.
AntichainRef_less_equal(frontier, time) == \E t \in frontier : less_equal(t, time)

\* Antichain::insert_with: time is added unless an element is less or equal to
\* it, and the elements it is less or equal to are removed.
Antichain_insert(frontier, time) ==
    IF \E t \in frontier : less_equal(t, time) THEN frontier
    ELSE { t \in frontier : ~less_equal(time, t) } \cup {time}

Chunk(updates, capacity) == [updates |-> updates, capacity |-> capacity]

\* FlatStack::default()
DefaultChunk == Chunk(<< >>, 0)

\* FlatStack::with_capacity
with_capacity(capacity) == Chunk(<< >>, capacity)

\* FlatStack::len
ChunkLen(chunk) == Len(chunk.updates)

\* FlatStack::copy: the index vector grows when it is full.
copy(chunk, item) ==
    Chunk(Append(chunk.updates, item), Max(chunk.capacity, Len(chunk.updates) + 1))

\* FlatcontainerMerger::chunk_capacity (BUFFER_SIZE_BYTES / size_of::<MC::Index>(), scaled).
chunk_capacity == MaxChunk

\* FlatcontainerMerger::empty: returns the chunk and the stash.
empty(stash) ==
    IF stash = << >> THEN [chunk |-> with_capacity(chunk_capacity), stash |-> stash]
    ELSE [chunk |-> stash[Len(stash)], stash |-> SubSeq(stash, 1, Len(stash) - 1)]

\* FlatcontainerMerger::recycle: returns the stash.
recycle(chunk, stash) ==
    IF chunk.capacity = chunk_capacity THEN Append(stash, Chunk(<< >>, chunk.capacity))
    ELSE stash

\* FlatStackQueue::from
FlatStackQueue_from(list) == [list |-> list, head |-> 0]

\* FlatStackQueue::is_empty
FlatStackQueue_is_empty(queue) == queue.head >= ChunkLen(queue.list)

\* FlatStackQueue::peek
peek(queue) == queue.list.updates[queue.head + 1]

\* FlatStackQueue::pop: the queue after the pop (the item popped is its peek).
pop(queue) == [queue EXCEPT !.head = @ + 1]

\* FlatStackQueue::iter().take(n): the first n of the remaining items.
Take(queue, n) ==
    SubSeq(queue.list.updates, queue.head + 1,
           IF queue.head + n < ChunkLen(queue.list) THEN queue.head + n ELSE ChunkLen(queue.list))

\* `list.next().unwrap_or_default()`, and the iterator after it.
NextChunk(list) == IF list = << >> THEN DefaultChunk ELSE Head(list)
Rest(list) == IF list = << >> THEN << >> ELSE Tail(list)

\* merge: `output.push(result); result = self.empty(stash);` where empty returns e.
PushResult(m, e) ==
    [m EXCEPT !.output = Append(@, m.result), !.result = e.chunk, !.stash = e.stash]

\* Mutant of MergeItems: on equal keys the sum is copied without the zero test.
MergeItems_keepzero(m, a, b) ==
    IF KeyLess(a, b) THEN [m EXCEPT !.result = copy(@, a), !.head1 = pop(@)]
    ELSE IF KeyLess(b, a) THEN [m EXCEPT !.result = copy(@, b), !.head2 = pop(@)]
    ELSE [m EXCEPT !.result = copy(@, <<a[1], a[2], a[3] + b[3]>>),
                   !.head1 = pop(@), !.head2 = pop(@)]

\* merge: one round of the inner loop, a and b being the peeks of the two heads
\* (`match cmp { Less => .., Greater => .., Equal => .. }`).
MergeItems(m, a, b) ==
    IF KeyLess(a, b) THEN [m EXCEPT !.result = copy(@, a), !.head1 = pop(@)]
    ELSE IF KeyLess(b, a) THEN [m EXCEPT !.result = copy(@, b), !.head2 = pop(@)]
    ELSE IF a[3] + b[3] # 0
    THEN [m EXCEPT !.result = copy(@, <<a[1], a[2], a[3] + b[3]>>),
                   !.head1 = pop(@), !.head2 = pop(@)]
    ELSE [m EXCEPT !.head1 = pop(@), !.head2 = pop(@)]

RECURSIVE MergeInner(_)
\* merge: the inner loop, `while (result.capacity() - result.len()) > 0 &&
\* !head1.is_empty() && !head2.is_empty()`.
MergeInner(m) ==
    IF /\ m.result.capacity - ChunkLen(m.result) > 0
       /\ ~FlatStackQueue_is_empty(m.head1)
       /\ ~FlatStackQueue_is_empty(m.head2)
    THEN MergeInner(MergeItems(m, peek(m.head1), peek(m.head2)))
    ELSE m

\* merge: `if result.capacity() == result.len() { output.push(result); .. }`
FlushFull(m) ==
    IF m.result.capacity = ChunkLen(m.result) THEN PushResult(m, empty(m.stash)) ELSE m

\* merge: `if head1.is_empty() { recycle(head1.done()); head1 = from(list1.next()..) }`
Refill1(m) ==
    IF FlatStackQueue_is_empty(m.head1)
    THEN [m EXCEPT !.stash = recycle(m.head1.list, @),
                   !.head1 = FlatStackQueue_from(NextChunk(m.list1)),
                   !.list1 = Rest(@)]
    ELSE m

\* merge: `if head2.is_empty() { recycle(head2.done()); head2 = from(list2.next()..) }`
Refill2(m) ==
    IF FlatStackQueue_is_empty(m.head2)
    THEN [m EXCEPT !.stash = recycle(m.head2.list, @),
                   !.head2 = FlatStackQueue_from(NextChunk(m.list2)),
                   !.list2 = Rest(@)]
    ELSE m

RECURSIVE MergeLoop(_)
\* merge: `while !head1.is_empty() && !head2.is_empty()`.
MergeLoop(m) ==
    IF ~FlatStackQueue_is_empty(m.head1) /\ ~FlatStackQueue_is_empty(m.head2)
    THEN MergeLoop(Refill2(Refill1(FlushFull(MergeInner(m)))))
    ELSE m

\* merge: one round of `while !head1.is_empty()`, with advance the room of result.
Drained1(m, advance) ==
    PushResult([m EXCEPT !.result = Chunk(@.updates \o Take(m.head1, advance), @.capacity),
                         !.head1.head = @ + advance],
               empty(m.stash))

RECURSIVE DrainHead1(_)
\* merge: `while !head1.is_empty() { .. }` (a result without room would be pushed
\* for ever: the loop diverges).
DrainHead1(m) ==
    IF FlatStackQueue_is_empty(m.head1) \/ m.diverged THEN m
    ELSE IF m.result.capacity - ChunkLen(m.result) = 0 THEN [m EXCEPT !.diverged = TRUE]
    ELSE DrainHead1(Drained1(m, m.result.capacity - ChunkLen(m.result)))

\* Mutant of FlushPartial: result is pushed whether it is empty or not.
FlushPartial_always(m) == PushResult(m, empty(m.stash))

\* merge: `if !result.is_empty() { output.push(result); result = self.empty(stash); }`
FlushPartial(m) ==
    IF ChunkLen(m.result) # 0 THEN PushResult(m, empty(m.stash)) ELSE m

\* merge: `output.extend(list1); self.recycle(head1.done(), stash);`
ExtendList1(m) ==
    [m EXCEPT !.output = @ \o m.list1, !.list1 = << >>, !.stash = recycle(m.head1.list, @)]

\* merge: one round of `while !head2.is_empty()`, with advance the room of result.
Drained2(m, advance) ==
    PushResult([m EXCEPT !.result = Chunk(@.updates \o Take(m.head2, advance), @.capacity),
                         !.head2.head = @ + advance],
               empty(m.stash))

RECURSIVE DrainHead2(_)
\* merge: `while !head2.is_empty() { .. }`
DrainHead2(m) ==
    IF FlatStackQueue_is_empty(m.head2) \/ m.diverged THEN m
    ELSE IF m.result.capacity - ChunkLen(m.result) = 0 THEN [m EXCEPT !.diverged = TRUE]
    ELSE DrainHead2(Drained2(m, m.result.capacity - ChunkLen(m.result)))

\* merge: `output.extend(list2); self.recycle(head2.done(), stash);`
ExtendList2(m) ==
    [m EXCEPT !.output = @ \o m.list2, !.list2 = << >>, !.stash = recycle(m.head2.list, @)]

\* merge: the locals once `let mut result = self.empty(stash)` has returned e.
MergeStart(list1, list2, output, e) ==
    [list1 |-> Rest(list1),
     list2 |-> Rest(list2),
     head1 |-> FlatStackQueue_from(NextChunk(list1)),
     head2 |-> FlatStackQueue_from(NextChunk(list2)),
     result |-> e.chunk,
     output |-> output,
     stash |-> e.stash,
     diverged |-> FALSE]

\* FlatcontainerMerger::merge: returns output and stash (and whether it diverges).
merge(list1, list2, output, stash) ==
    ExtendList2(DrainHead2(ExtendList1(FlushPartial(DrainHead1(MergeLoop(
        MergeStart(list1, list2, output, empty(stash))))))))

\* extract: `kept.push(keep); keep = self.empty(stash);` where empty returns e.
PushKept(x, e) == [x EXCEPT !.kept = Append(@, x.keep), !.keep = e.chunk, !.stash = e.stash]

\* extract: `readied.push(ready); ready = self.empty(stash);` where empty returns e.
PushReadied(x, e) ==
    [x EXCEPT !.readied = Append(@, x.ready), !.ready = e.chunk, !.stash = e.stash]

\* extract: the branch of an update whose time is in advance of upper.
KeepItem(x, item) ==
    IF ChunkLen(x.keep) = x.keep.capacity /\ ChunkLen(x.keep) # 0
    THEN [PushKept(x, empty(x.stash)) EXCEPT !.keep = copy(@, item),
                                             !.frontier = Antichain_insert(@, item[2])]
    ELSE [x EXCEPT !.keep = copy(@, item), !.frontier = Antichain_insert(@, item[2])]

\* extract: the branch of an update whose time is not in advance of upper.
ReadyItem(x, item) ==
    IF ChunkLen(x.ready) = x.ready.capacity /\ ChunkLen(x.ready) # 0
    THEN [PushReadied(x, empty(x.stash)) EXCEPT !.ready = copy(@, item)]
    ELSE [x EXCEPT !.ready = copy(@, item)]

\* Mutant of ExtractItem: the update is kept when its time is beyond upper in
\* the order of Ord (some element of upper is not after it).
ExtractItem_ord(x, upper_, item) ==
    IF \E t \in upper_ : t <= item[2] THEN KeepItem(x, item) ELSE ReadyItem(x, item)

\* Mutant of ExtractItem: the time of every update is inserted into frontier.
ExtractItem_frontier(x, upper_, item) ==
    IF AntichainRef_less_equal(upper_, item[2]) THEN KeepItem(x, item)
    ELSE [ReadyItem(x, item) EXCEPT !.frontier = Antichain_insert(@, item[2])]

\* extract: the body of the loop over the updates, `if upper.less_equal(&time)`.
ExtractItem(x, upper_, item) ==
    IF AntichainRef_less_equal(upper_, item[2]) THEN KeepItem(x, item) ELSE ReadyItem(x, item)

RECURSIVE ExtractBuffer(_, _, _, _)
\* extract: `for (data, time, diff) in buffer.iter()`, from position i on.
ExtractBuffer(x, upper_, buffer, i) ==
    IF i > ChunkLen(buffer) THEN x
    ELSE ExtractBuffer(ExtractItem(x, upper_, buffer.updates[i]), upper_, buffer, i + 1)

\* extract: `self.recycle(buffer, stash)` after the loop over its updates.
Recycled(x, buffer) == [x EXCEPT !.stash = recycle(buffer, @)]

RECURSIVE ExtractMerged(_, _, _, _)
\* extract: `for buffer in merged`, from position j on.
ExtractMerged(x, upper_, merged, j) ==
    IF j > Len(merged) THEN x
    ELSE ExtractMerged(Recycled(ExtractBuffer(x, upper_, merged[j], 1), merged[j]),
                       upper_, merged, j + 1)

\* extract: `if !keep.is_empty() { kept.push(keep); }`
FinishKept(x) == IF ChunkLen(x.keep) # 0 THEN [x EXCEPT !.kept = Append(@, x.keep)] ELSE x

\* extract: `if !ready.is_empty() { readied.push(ready); }`
FinishReadied(x) ==
    IF ChunkLen(x.ready) # 0 THEN [x EXCEPT !.readied = Append(@, x.ready)] ELSE x

\* extract: the locals once `self.empty(stash)` has returned e1 for keep and
\* then e2 for ready.
ExtractStart(frontier, readied, kept, e1, e2) ==
    [frontier |-> frontier,
     readied |-> readied,
     kept |-> kept,
     keep |-> e1.chunk,
     ready |-> e2.chunk,
     stash |-> e2.stash]

\* FlatcontainerMerger::extract: returns frontier, readied, kept and stash.
extract(merged, upper_, frontier, readied, kept, stash) ==
    FinishReadied(FinishKept(ExtractMerged(
        ExtractStart(frontier, readied, kept, empty(stash), empty(empty(stash).stash)),
        upper_, merged, 1)))

----------------------------------------------------------------------------
(* The state machine.                                                      *)

\* The spine as a record of the current state.
Self ==
    [advance_frontier |-> advance_frontier,
     through_frontier |-> through_frontier,
     merging |-> merging,
     pending |-> pending,
     upper |-> upper,
     effort |-> effort,
     activated |-> FALSE,
     panic |-> panic,
     units |-> units]

\* The next state's spine is s.
Commit(s) ==
    /\ advance_frontier' = s.advance_frontier
    /\ through_frontier' = s.through_frontier
    /\ merging' = s.merging
    /\ pending' = s.pending
    /\ upper' = s.upper
    /\ effort' = s.effort
    /\ activated' = s.activated
    /\ panic' = s.panic
    /\ units' = s.units

NoResult == [op |-> "none", upper |-> {}, storage |-> None]

\* The frontiers the operations are called with.
Frontiers == {{}} \cup { {t} : t \in 0 .. MaxTime }

\* The frontiers advance_by is called with: closed, initial, and past every update.
AdvanceFrontiers == {{}, {Minimum}, {MaxTime}}

\* The times a batch with bounds [lower, upper) may hold.
BatchTimes(lower, upper_) ==
    { t \in 0 .. MaxTime - 1 : AllInAdvance({t}, lower) /\ ~AllInAdvance({t}, upper_) }

\* The update sequences of the inserted batches: the first n keys of the batch's
\* interval in (data, time) order, all with the same diff (+1 in the first batch).
BatchUpdates(lower, upper_) ==
    LET keys == (1 .. MaxData) \X BatchTimes(lower, upper_)
        sorted(diff) ==
            [ i \in 1 .. Cardinality(keys) |->
                LET k == CHOOSE j \in keys : Cardinality({ o \in keys : KeyLess(o, j) }) = i - 1
                IN  <<k[1], k[2], diff>> ]
    IN  { Vec(sorted(diff), n) :
            n \in 0 .. Cardinality(keys), diff \in IF lower = {Minimum} THEN {1} ELSE {1, -1} }

\* The state after construction is the spine s.
Constructed(s) ==
    /\ advance_frontier = s.advance_frontier
    /\ through_frontier = s.through_frontier
    /\ merging = s.merging
    /\ pending = s.pending
    /\ upper = s.upper
    /\ effort = s.effort
    /\ activated = s.activated
    /\ panic = s.panic
    /\ units = s.units
    /\ result = NoResult
    /\ inserted = << >>
    /\ advanced = FALSE

Init == \E e \in 0 .. MaxEffort : Constructed(with_effort(e))

\* The bounds of a batch description: upper is not before lower.
BatchBounds == { b \in Frontiers \X Frontiers : AllInAdvance(b[2], b[1]) }

\* insert(batch), for any bounds and any of the update sequences (a batch that
\* does not continue the trace holds no updates).
Insert ==
    /\ panic = NoPanic
    /\ \E bounds \in BatchBounds :
         \E updates \in IF bounds[1] = upper THEN BatchUpdates(bounds[1], bounds[2])
                         ELSE {<< >>} :
            LET lower == bounds[1]
                upper_ == bounds[2]
                batch == Batch(lower, upper_, {Minimum}, updates)
                s == insert(Self, batch)
            IN  /\ Commit(s)
                /\ inserted' = IF ~advanced /\ lower # upper_ /\ lower = upper
                               THEN Consolidate(inserted \o updates) ELSE inserted
    /\ result' = NoResult
    /\ UNCHANGED advanced

\* close()
Close ==
    /\ panic = NoPanic
    /\ Commit(close(Self))
    /\ result' = NoResult
    /\ UNCHANGED <<inserted, advanced>>

\* exert(&mut effort)
Exert ==
    /\ panic = NoPanic
    /\ \E e \in 1 .. MaxExert : Commit(exert(Self, e))
    /\ result' = NoResult
    /\ UNCHANGED <<inserted, advanced>>

\* advance_by(frontier)
AdvanceBy ==
    /\ panic = NoPanic
    /\ \E frontier \in AdvanceFrontiers :
         /\ Commit(advance_by(Self, frontier))
         /\ advanced' = (advanced \/ frontier # {Minimum})
         /\ inserted' = IF advanced \/ frontier # {Minimum} THEN << >> ELSE inserted
    /\ result' = NoResult

\* distinguish_since(frontier)
DistinguishSince ==
    /\ panic = NoPanic
    /\ \E frontier \in Frontiers : Commit(distinguish_since(Self, frontier))
    /\ result' = NoResult
    /\ UNCHANGED <<inserted, advanced>>

\* cursor_through(upper)
CursorThrough ==
    /\ panic = NoPanic
    /\ \E upper_ \in Frontiers :
         \E c \in {cursor_through(Self, upper_)} :
             /\ Commit([Self EXCEPT !.panic = c.panic])
             /\ result' = IF c.panic = NoPanic
                          THEN [op |-> "cursor_through", upper |-> upper_, storage |-> c.storage]
                          ELSE NoResult
    /\ UNCHANGED <<inserted, advanced>>

Next == Insert \/ Close \/ Exert \/ AdvanceBy \/ DistinguishSince \/ CursorThrough

Spec == Init /\ [][Next]_vars

----------------------------------------------------------------------------
(* SpecUnit: unit-sized batches inserted one after the other, and released *)
(* to the layers as distinguish_since moves forward.                       *)

\* insert of the batch [n, n+1) holding the one update (1, n, +1).
InsertUnit ==
    /\ panic = NoPanic
    /\ Len(pending) < MaxPending
    /\ \E n \in 0 .. MaxUnits - 1 :
         /\ upper = {n}
         /\ LET batch == Batch({n}, {n + 1}, {Minimum}, << <<1, n, 1>> >>)
            IN  /\ Commit(insert(Self, batch))
                /\ inserted' = Append(inserted, <<1, n, 1>>)
    /\ result' = NoResult
    /\ UNCHANGED advanced

\* distinguish_since(frontier), for the next time or the empty frontier.
DistinguishSinceUnit ==
    /\ panic = NoPanic
    /\ \E frontier \in {{}} \cup { {t + 1} : t \in through_frontier \cap (0 .. MaxUnits - 1) } :
         Commit(distinguish_since(Self, frontier))
    /\ result' = NoResult
    /\ UNCHANGED <<inserted, advanced>>

NextUnit == InsertUnit \/ DistinguishSinceUnit

SpecUnit == Init /\ [][NextUnit]_vars

----------------------------------------------------------------------------
(* SpecFuel: batches of one update or of MaxSize updates, released as soon *)
(* as distinguish_since has been called with the empty frontier, with      *)
(* exert and advance_by in between.                                        *)

\* insert of the batch [t, t+1) holding the updates (1, t, +1) .. (n, t, +1).
InsertSized ==
    /\ panic = NoPanic
    /\ \E t \in 0 .. MaxBatches - 1, n \in {1, MaxSize} :
         /\ upper = {t}
         /\ LET batch == Batch({t}, {t + 1}, {Minimum}, Vec([ d \in 1 .. n |-> <<d, t, 1>> ], n))
            IN  Commit(insert(Self, batch))
    /\ result' = NoResult
    /\ UNCHANGED <<inserted, advanced>>

\* distinguish_since(&[])
DistinguishSinceEmpty ==
    /\ panic = NoPanic
    /\ Commit(distinguish_since(Self, {}))
    /\ result' = NoResult
    /\ UNCHANGED <<inserted, advanced>>

\* advance_by(frontier), to the initial frontier or past every update.
AdvanceByFuel ==
    /\ panic = NoPanic
    /\ \E frontier \in {{Minimum}, {MaxBatches}} :
         /\ Commit(advance_by(Self, frontier))
         /\ advanced' = (advanced \/ frontier # {Minimum})
    /\ result' = NoResult
    /\ UNCHANGED inserted

NextFuel == InsertSized \/ DistinguishSinceEmpty \/ Exert \/ AdvanceByFuel

SpecFuel == Init /\ [][NextFuel]_vars

----------------------------------------------------------------------------
(* SpecExert: a few batches of one update or of MaxSize updates, released  *)
(* by distinguish_since, and an operator that is scheduled again and       *)
(* again: exert signals the activator whenever it has found the trace not  *)
(* reduced, and the activated operator calls exert again.                  *)

\* insert of the batch [t, t+1) holding the updates (1, t, +1) .. (n, t, +1).
InsertFew ==
    /\ panic = NoPanic
    /\ \E t \in 0 .. MaxFew - 1, n \in {1, MaxSize} :
         /\ upper = {t}
         /\ LET batch == Batch({t}, {t + 1}, {Minimum}, Vec([ d \in 1 .. n |-> <<d, t, 1>> ], n))
            IN  Commit(insert(Self, batch))
    /\ result' = NoResult
    /\ UNCHANGED <<inserted, advanced>>

NextExert == InsertFew \/ DistinguishSince \/ Exert

\* ENABLED <<Exert>>_vars as a state predicate: a call of exert that changes
\* the state is possible.
ExertActs ==
    /\ panic = NoPanic
    /\ \/ result # NoResult
       \/ \E e \in 1 .. MaxExert : exert(Self, e) # [Self EXCEPT !.activated = activated]

\* Weak fairness of Exert, WF_vars(Exert), with its ENABLED written as ExertActs:
\* the activated operator is scheduled, so a call of exert that would change
\* the state is not put off forever.
SpecExert == Init /\ [][NextExert]_vars /\ ([]<>~ExertActs \/ []<><<Exert>>_vars)

----------------------------------------------------------------------------
(* SpecSigned: batches [t, t+1) holding no update or one update of data 1  *)
(* at time t with diff +1 or -1, released by distinguish_since, merged     *)
(* under the initial advance frontier or the frontier [MaxTime], and read  *)
(* by cursor_through.                                                      *)

\* insert of the batch [t, t+1) holding nothing, (1, t, +1) or (1, t, -1).
InsertSigned ==
    /\ panic = NoPanic
    /\ \E t \in 0 .. MaxSigned - 1 :
         /\ upper = {t}
         /\ \E updates \in {<< >>, << <<1, t, 1>> >>, << <<1, t, -1>> >>} :
              /\ Commit(insert(Self, Batch({t}, {t + 1}, {Minimum}, updates)))
              /\ inserted' = Consolidate(inserted \o updates)
    /\ result' = NoResult
    /\ UNCHANGED advanced

\* advance_by(frontier), to the initial frontier or to [MaxTime].
AdvanceBySigned ==
    /\ panic = NoPanic
    /\ \E frontier \in {{Minimum}, {MaxTime}} :
         /\ Commit(advance_by(Self, frontier))
         /\ advanced' = (advanced \/ frontier # {Minimum})
    /\ result' = NoResult
    /\ UNCHANGED inserted

NextSigned == InsertSigned \/ DistinguishSince \/ AdvanceBySigned \/ Exert \/ CursorThrough

SpecSigned == Init /\ [][NextSigned]_vars

----------------------------------------------------------------------------
(* SpecBatcher: the merger of the merge batcher is handed two chunk lists  *)
(* as the batcher holds them (each sorted by (data, time), consolidated,   *)
(* cut into non-empty chunks of at most chunk_capacity updates); merge     *)
(* merges them and extract splits the merged list at a frontier.  The      *)
(* lists and what the merger returns are kept in `result`; the spine is    *)
(* idle.                                                                   *)

\* The (data, time) keys of the updates, and the antichains of times.
BatcherKeys == (1 .. MaxData) \X (0 .. MaxBatcherTime)
Antichains ==
    { f \in SUBSET (0 .. MaxBatcherTime) : \A a, b \in f : a # b => ~less_equal(a, b) }

\* The keys of the set `keys` in (data, time) order, each with the diff diffs[i].
UpdateList(keys, rank, diffs) ==
    Vec([ i \in 1 .. Cardinality(keys) |->
            (LET k == CHOOSE j \in keys : rank[j] = i - 1 IN <<k[1], k[2], diffs[i]>>) ],
        Cardinality(keys))

\* The sorted, consolidated lists of at most MaxList updates with diffs +1 and -1.
UpdateLists ==
    UNION { { UpdateList(keys, KeyRank(keys), diffs) :
                diffs \in [1 .. Cardinality(keys) -> {1, -1}] } :
            keys \in { k \in SUBSET BatcherKeys : Cardinality(k) <= MaxList } }

RECURSIVE Chunkings(_)
\* The ways to cut the list l into non-empty chunks of at most chunk_capacity updates.
Chunkings(l) ==
    IF l = << >> THEN {<< >>}
    ELSE UNION { { <<Chunk(SubSeq(l, 1, n), chunk_capacity)>> \o rest :
                     rest \in Chunkings(SubSeq(l, n + 1, Len(l))) } :
                 n \in 1 .. (IF Len(l) < chunk_capacity THEN Len(l) ELSE chunk_capacity) }

ChunkLists == UNION { Chunkings(l) : l \in UpdateLists }

\* The batcher holds the chunk lists list1 and list2, and an empty stash.
InitBatcher ==
    /\ advance_frontier = with_effort(1).advance_frontier
    /\ through_frontier = with_effort(1).through_frontier
    /\ merging = with_effort(1).merging
    /\ pending = with_effort(1).pending
    /\ upper = with_effort(1).upper
    /\ effort = with_effort(1).effort
    /\ activated = with_effort(1).activated
    /\ panic = with_effort(1).panic
    /\ units = with_effort(1).units
    /\ inserted = << >>
    /\ advanced = FALSE
    /\ \E list1 \in ChunkLists, list2 \in ChunkLists :
         result = [op |-> "lists", list1 |-> list1, list2 |-> list2, stash |-> << >>]

\* merge(list1, list2, &mut output, &mut stash) with an empty output.
Merge ==
    /\ result.op = "lists"
    /\ \E m \in {merge(result.list1, result.list2, << >>, result.stash)} :
         result' = [op |-> "merge", list1 |-> result.list1, list2 |-> result.list2,
                    output |-> m.output, stash |-> m.stash, diverged |-> m.diverged]
    /\ UNCHANGED <<advance_frontier, through_frontier, merging, pending, upper, effort,
                   activated, panic, units, inserted, advanced>>

\* extract(merged, upper, &mut frontier, &mut readied, &mut kept, &mut stash) on
\* the merged list, with an empty frontier and empty readied and kept.
Extract ==
    /\ result.op = "merge"
    /\ ~result.diverged
    /\ \E upper_ \in Antichains :
         \E x \in {extract(result.output, upper_, {}, << >>, << >>, result.stash)} :
             result' = [op |-> "extract", merged |-> result.output, upper |-> upper_,
                        frontier |-> x.frontier, readied |-> x.readied, kept |-> x.kept,
                        stash |-> x.stash]
    /\ UNCHANGED <<advance_frontier, through_frontier, merging, pending, upper, effort,
                   activated, panic, units, inserted, advanced>>

NextBatcher == Merge \/ Extract

SpecBatcher == InitBatcher /\ [][NextBatcher]_vars

----------------------------------------------------------------------------
(* What the claims speak of.                                               *)

\* The batches map_batches visits are contiguous: each upper is the next lower.
Contiguous(l) == \A i \in 1 .. Len(l) - 1 : l[i].upper = l[i + 1].lower

\* The updates layer i accounts for: 2^i for each batch or placeholder it holds.
Accounted(ms, i) ==
    IF is_vacant(ms) THEN 0 ELSE IF is_single(ms) THEN Pow2(i) ELSE 2 * Pow2(i)

RECURSIVE AccountedBelow(_, _)
\* The updates accounted for by the layers 0 .. k - 1 of m.
AccountedBelow(m, k) ==
    IF k = 0 THEN 0 ELSE Accounted(m[k], k - 1) + AccountedBelow(m, k - 1)

\* The batches layer ms holds.
BatchesOf(ms) ==
    IF is_in_progress(ms) THEN {ms.variant.b1, ms.variant.b2}
    ELSE IF is_complete(ms) THEN Range(ms.variant.batch)
    ELSE IF is_single(ms) THEN Range(ms.batch)
    ELSE {}

\* The number of unit batches released from `pending` to the layers (SpecUnit).
Released == Len(inserted) - Len(pending)

CeilLog2(n) == trailing_zeros(next_power_of_two(n))

----------------------------------------------------------------------------
(* The claims.                                                             *)

\* C1: in every state the batches of the layers (oldest first, batch1 before
\* batch2 within a merge in progress) followed by the pending batches are
\* contiguous, each batch's upper being the next batch's lower, and the
\* assertion batch1.upper() == batch2.lower() of begin_merge never fails.
C1_Contiguity ==
    /\ Contiguous(map_batches(Self))
    /\ panic # "assertion failed: batch1.upper() == batch2.lower()"

\* C1 witness: a merge of two batches is in progress, an older merged batch
\* lies in a higher layer or a batch waits in pending.
C1_Witness ==
    /\ panic = NoPanic
    /\ \E k \in 1 .. Len(merging) : is_in_progress(merging[k])
    /\ Len(pending) >= 1
    /\ Len(map_batches(Self)) >= 3

\* C2: after inserts, exerts and distinguish_since calls (no advance_by past the
\* initial frontier), the cursor of cursor_through(U) for the final upper U
\* yields exactly the consolidation of all the updates inserted.
C2_RoundTrip ==
    (result.op = "cursor_through" /\ result.upper = upper /\ ~advanced)
        => CursorList(result.storage[1]) = inserted

\* C2 witness: such a cursor over a merge in progress and a pending batch, with
\* at least three updates inserted.
C2_Witness ==
    /\ result.op = "cursor_through" /\ result.upper = upper /\ ~advanced
    /\ Len(inserted) >= 3
    /\ \E k \in 1 .. Len(merging) : is_in_progress(merging[k])
    /\ Len(pending) >= 1

\* C3: insert of a batch whose lower is not the spine's upper panics, and leaves
\* upper, pending and the layers as they were.
C3_InsertRejected ==
    panic = NoPanic =>
        \A b \in BatchBounds :
            b[1] # upper =>
                LET s == insert(Self, Batch(b[1], b[2], {Minimum}, << >>))
                IN  /\ s.panic # NoPanic
                    /\ s.upper = upper
                    /\ s.pending = pending
                    /\ s.merging = merging
                    /\ s.through_frontier = through_frontier
                    /\ s.advance_frontier = advance_frontier

\* C3 witness: the program has panicked in insert's assertion on the lower
\* bound, with batches in the layers.
C3_Witness ==
    /\ panic = "assertion failed: batch.lower() == self.upper"
    /\ Len(merging) >= 1

\* C4: whenever layer k holds a merge in progress, the layers below k account
\* for fewer than 2^k updates (2^i for each batch or placeholder at layer i).
C4_LowerLayersSmall ==
    \A k \in 0 .. Len(merging) - 1 :
        is_in_progress(merging[k + 1]) => AccountedBelow(merging, k) < Pow2(k)

\* C4 witness: a merge in progress at a layer k >= 2 with batches below it.
C4_Witness ==
    /\ panic = NoPanic
    /\ \E k \in 2 .. Len(merging) - 1 :
        is_in_progress(merging[k + 1]) /\ AccountedBelow(merging, k) >= Pow2(k - 1)

\* C5: insert_at never finds a Double: the panic "Attempted to insert batch
\* into incomplete merge!" is unreachable.
C5_NoIncompleteInsert == panic # "Attempted to insert batch into incomplete merge!"

\* C5 witness: batches were promoted and merged up to layer 3, where a merge is
\* in progress above occupied layers.
C5_Witness ==
    /\ panic = NoPanic
    /\ Len(merging) >= 4
    /\ is_in_progress(merging[4])
    /\ \E k \in 1 .. 3 : ~is_vacant(merging[k])

\* C6 as stated: after any sequence of inserts every layer is Vacant or Single,
\* no Double exists at rest.
C6_NoDoubleAtRest ==
    \A k \in 1 .. Len(merging) : is_vacant(merging[k]) \/ is_single(merging[k])

\* C6, amended: after any sequence of inserts every layer is Vacant, Single or
\* a Double whose merge is still in progress; no completed merge rests in its
\* layer.
C6_DoubleInProgress ==
    \A k \in 1 .. Len(merging) :
        is_vacant(merging[k]) \/ is_single(merging[k]) \/ is_in_progress(merging[k])

\* C6 witness: at rest, merges are in progress at two layers at once.
C6_Witness ==
    /\ panic = NoPanic
    /\ \E j, k \in 1 .. Len(merging) :
        j < k /\ is_in_progress(merging[j]) /\ is_in_progress(merging[k])

\* C7: every batch at layer i holds at most 2^i updates.
C7_LayerSizes ==
    \A i \in 0 .. Len(merging) - 1 :
        \A b \in BatchesOf(merging[i + 1]) : BatchLen(b) <= Pow2(i)

\* C7 witness: a merged batch of exactly 2^3 updates at layer 3.
C7_Witness ==
    /\ panic = NoPanic
    /\ Len(merging) >= 4
    /\ \E b \in BatchesOf(merging[4]) : BatchLen(b) = Pow2(3)

\* C8: a merge in progress at layer k has seen fewer than 2^k unit-sized
\* batches introduced at layer 0 since it began: it completes before the
\* 2^k-th of them.
C8_MergeCompletesInTime ==
    \A k \in 0 .. Len(merging) - 1 :
        is_in_progress(merging[k + 1]) => units[k + 1] < Pow2(k)

\* C8 witness: a merge at layer 5 still in progress after 7 unit introductions.
C8_Witness ==
    /\ panic = NoPanic
    /\ Len(merging) >= 6
    /\ is_in_progress(merging[6])
    /\ units[6] = 7

\* C9: with effort 1, after n >= 1 unit batches were released to the layers
\* there are at most ceil(log2 n) + 1 layers.
C9_Depth ==
    (effort = 1 /\ Released >= 1) => Len(merging) <= CeilLog2(Released) + 1

\* C9 witness: more than 32 unit batches released, and the layers 0 .. 5 in use.
C9_Witness ==
    /\ panic = NoPanic
    /\ effort = 1
    /\ Released > 32
    /\ Len(merging) = 6

\* C10 as stated: after exactly 2^m unit batches layer m holds a Single batch
\* with all the 2^m updates.
C10_SingleAtTop ==
    \A m \in 0 .. CeilLog2(MaxUnits) :
        Released = Pow2(m) =>
            /\ Len(merging) > m
            /\ is_single(merging[m + 1])
            /\ MergeState_len(merging[m + 1]) = Pow2(m)

\* C10, amended: after exactly 2^m unit batches, m >= 1, there are the m layers
\* 0 .. m - 1: layer 0 holds the merge in progress of the last two batches and
\* each layer i of 1 .. m - 1 a Single batch of 2^i updates; a batch with all
\* the 2^m updates does not exist yet.
C10_Staircase ==
    \A m \in 1 .. CeilLog2(MaxUnits) :
        Released = Pow2(m) =>
            /\ Len(merging) = m
            /\ is_in_progress(merging[1])
            /\ MergeState_len(merging[1]) = 2
            /\ \A i \in 1 .. m - 1 :
                  is_single(merging[i + 1]) /\ MergeState_len(merging[i + 1]) = Pow2(i)

\* C10 witness: 2^6 unit batches were released.
C10_Witness ==
    /\ panic = NoPanic
    /\ Released = Pow2(6)
    /\ Len(merging) = 6

----------------------------------------------------------------------------
(* The trace reader: cursor_through, advance_by.                           *)

\* The batches of l that are not empty and whose upper frontier is less or
\* equal to the frontier u, in the order of l.
Covered(l, u) ==
    LET within(b) == ~BatchIsEmpty(b) /\ AllInAdvance(u, b.upper)
    IN  SelectSeq(l, within)

\* C11: the storage cursor_through(upper) returns holds exactly the non-empty
\* batches of the spine (layers and pending) whose upper frontier is less or
\* equal to the requested upper, and no batch beyond it.
C11_ExactCover ==
    result.op = "cursor_through" =>
        result.storage[1] = Covered(map_batches(Self), result.upper)

\* C11, while every batch of the layers lies within the distinguish frontier
\* (distinguish_since has not been moved back behind a released batch): the
\* storage holds exactly the non-empty batches whose upper is within the
\* requested upper.
C11_CoverWithinFrontier ==
    (/\ result.op = "cursor_through"
     /\ \A k \in 1 .. Len(merging) :
            \A b \in BatchesOf(merging[k]) : AllInAdvance(through_frontier, b.upper))
        => result.storage[1] = Covered(map_batches(Self), result.upper)

\* C11 witness: a cursor over the batch of a layer and the first of two pending
\* batches, the second being beyond the requested upper.
C11_Witness ==
    /\ result.op = "cursor_through"
    /\ \E k \in 1 .. Len(merging) : is_single(merging[k])
    /\ Len(pending) = 2
    /\ Len(result.storage[1]) = 2
    /\ result.storage[1][2] = pending[1]

\* The updates of the batches the spine holds for a cursor through u: those of
\* the layers and those of the pending batches within u.
LiveUpdates(u) == Concat(LayerBatches(Self, Len(merging) - 1) \o Covered(pending, u), 1)

\* The stream s is in (data, time) order without a repeated key.
StrictlySorted(s) == \A i \in 1 .. Len(s) - 1 : KeyLess(s[i], s[i + 1])

Straddles(u, b) ==
    /\ AllInAdvance(u, b.lower)
    /\ ~AllInAdvance(u, b.upper)
    /\ u # b.lower

\* C13: cursor_through(upper) panics, and returns no cursor, whenever some
\* non-empty pending batch is cut by upper.
C13_StraddlePanics ==
    panic = NoPanic =>
        \A u \in Frontiers :
            (\E i \in 1 .. Len(pending) : ~BatchIsEmpty(pending[i]) /\ Straddles(u, pending[i]))
                => /\ cursor_through(Self, u).panic # NoPanic
                   /\ cursor_through(Self, u).storage = None

\* C13 witness: cursor_through has panicked on the second of two pending
\* batches, the first being within the requested upper.
C13_Witness ==
    /\ panic = "cursor_through: upper straddles batch"
    /\ Len(pending) = 2
    /\ \E u \in Frontiers :
          /\ AllInAdvance(u, through_frontier)
          /\ AllInAdvance(u, pending[1].upper)
          /\ Straddles(u, pending[2])

\* The frontier u is beyond the spine's upper: the trace has not reached it.
BeyondUpper(u) == ~AllInAdvance(upper, u)

\* C14 as stated: cursor_through(upper) returns None when the requested upper
\* is beyond the spine's upper.
C14_NoneBeyondUpper ==
    panic = NoPanic =>
        \A u \in Frontiers :
            BeyondUpper(u) =>
                /\ cursor_through(Self, u).panic = NoPanic
                /\ cursor_through(Self, u).storage = None

\* C14, amended: cursor_through never returns None, it panics or returns a
\* cursor; for an upper beyond the spine's upper that passes the two
\* assertions it returns a cursor over every non-empty batch the spine holds.
C14_NeverNone ==
    panic = NoPanic =>
        \A u \in Frontiers :
            /\ cursor_through(Self, u).panic = NoPanic => cursor_through(Self, u).storage # None
            /\ (/\ BeyondUpper(u)
                /\ advance_frontier # {}
                /\ AllInAdvance(u, through_frontier))
                   => /\ cursor_through(Self, u).panic = NoPanic
                      /\ cursor_through(Self, u).storage = Some(Covered(map_batches(Self), {}))

\* C14 witness: a cursor was returned for an upper beyond the spine's upper,
\* over a batch of the layers and a pending batch.
C14_Witness ==
    /\ result.op = "cursor_through"
    /\ BeyondUpper(result.upper)
    /\ Len(pending) >= 1
    /\ Len(result.storage[1]) > Len(pending)

\* C15: cursor_through(upper) fails its first assertion when the trace is
\* closed (advance_frontier is empty) and its second when upper is not in
\* advance of the distinguish frontier; in both cases no cursor is returned, so
\* a cursor is served only for an open trace and an upper >= through_frontier.
C15_AssertionsGuard ==
    panic = NoPanic =>
        \A u \in Frontiers :
            LET c == cursor_through(Self, u)
            IN  /\ advance_frontier = {} =>
                    /\ c.panic = "assertion failed: self.advance_frontier.len() > 0"
                    /\ c.storage = None
                /\ (advance_frontier # {} /\ ~AllInAdvance(u, through_frontier)) =>
                    /\ c.panic = "assertion failed: upper >= self.through_frontier"
                    /\ c.storage = None
                /\ c.storage # None =>
                    advance_frontier # {} /\ AllInAdvance(u, through_frontier)

\* C15 witness: cursor_through has failed the assertion on through_frontier,
\* with batches in the layers and in pending.
C15_Witness ==
    /\ panic = "assertion failed: upper >= self.through_frontier"
    /\ Len(merging) >= 1
    /\ Len(pending) >= 1

\* C16: advance_by with the empty frontier leaves no layer and no pending
\* batch (so no merge in progress), the trace is then reduced, and an exert
\* that follows changes nothing and does not signal the activator.
C16_Cancelled ==
    panic = NoPanic =>
        LET a == advance_by(Self, {})
        IN  /\ a.advance_frontier = {}
            /\ a.merging = << >>
            /\ a.pending = << >>
            /\ map_batches(a) = << >>
            /\ reduced(a)
            /\ \A e \in 1 .. MaxExert : exert(a, e) = a /\ ~exert(a, e).activated

\* C16 witness: batches were inserted, and advance_by with the empty frontier
\* has discarded them.
C16_Witness ==
    /\ panic = NoPanic
    /\ advance_frontier = {}
    /\ upper = {MaxTime}
    /\ merging = << >>
    /\ pending = << >>

\* C17: advance_by is idempotent: a second advance_by with the same frontier
\* leaves the spine (frontiers, upper, layers, pending) as the first left it.
C17_Idempotent ==
    panic = NoPanic =>
        \A f \in Frontiers : advance_by(advance_by(Self, f), f) = advance_by(Self, f)

\* C17 witness: the advance frontier was moved to [MaxTime] while a merge is in
\* progress and a batch is pending.
C17_Witness ==
    /\ panic = NoPanic
    /\ advance_frontier = {MaxTime}
    /\ \E k \in 1 .. Len(merging) : is_in_progress(merging[k])
    /\ Len(pending) >= 1

\* The batches held by the layers m.
LayerBatchSet(m) == UNION { BatchesOf(m[k]) : k \in 1 .. Len(m) }

\* The batches the merges in progress in m are going to produce.
ProductsInProgress(m) ==
    { Merger_done(m[k].variant.b1, m[k].variant.b2, m[k].variant.frontier) :
        k \in { j \in 1 .. Len(m) : is_in_progress(m[j]) } }

\* Every time t of the batch b satisfies f.join(t) == t.
AdvancedTo(b, f) == \A u \in Range(b.updates) : AllInAdvance({u[2]}, f)

\* The batch b spans more than the interval [t, t+1) of one inserted batch: it
\* was produced by a merge (SpecFuel).
Merged(b) == \E t \in b.lower : b.upper # {t + 1}

\* The merge in progress at position k of the layers n was not in progress,
\* with these inputs, in the layers m.
Begun(m, n, k) ==
    /\ is_in_progress(n[k])
    /\ \/ k > Len(m)
       \/ ~is_in_progress(m[k])
       \/ m[k].variant.b1 # n[k].variant.b1
       \/ m[k].variant.b2 # n[k].variant.b2

\* C18 as stated: with the advance frontier at F, every batch produced by a
\* merge begun in a step (by insertion into a Single layer, by promotion, or by
\* rolling up lower layers) has all its times advanced to F; the products of
\* merges that were already in progress are left aside.
C18_MergesAdvance ==
    [][advance_frontier' = advance_frontier =>
         \A b \in LayerBatchSet(merging') \ (LayerBatchSet(merging) \cup ProductsInProgress(merging)) :
             Merged(b) => AdvancedTo(b, advance_frontier)]_vars

\* C18, amended: a merge begun by insert_at (insertion into a Single layer, or
\* promotion of a completed merge) is given the advance frontier F of that
\* moment and the batch it produces has every time advanced to F.  (The merges
\* of roll_up are given no frontier, and a merge already in progress keeps the
\* frontier it began with.)
C18_InsertAtMergesAdvance ==
    [][advance_frontier' = advance_frontier =>
         \A k \in 1 .. Len(merging') :
             Begun(merging, merging', k) =>
                 /\ merging'[k].variant.frontier = Some(advance_frontier)
                 /\ AdvancedTo(Merger_done(merging'[k].variant.b1, merging'[k].variant.b2,
                                              merging'[k].variant.frontier),
                                  advance_frontier)]_vars

\* C18 witness: a merge begun after advance_by([MaxBatches]) is in progress, on
\* batches whose times are earlier than MaxBatches, above a batch that was
\* produced with its times advanced to [MaxBatches].
C18_Witness ==
    /\ panic = NoPanic
    /\ advance_frontier = {MaxBatches}
    /\ \E k \in 1 .. Len(merging) :
          /\ is_in_progress(merging[k])
          /\ merging[k].variant.frontier = Some({MaxBatches})
          /\ ~AdvancedTo(merging[k].variant.b1, {MaxBatches})
    /\ \E b \in LayerBatchSet(merging) :
          Merged(b) /\ b.updates # << >> /\ AdvancedTo(b, {MaxBatches})

\* The scenario of C19: the updates (1, t=0, +1) and (1, t=1, -1) were inserted
\* (and nothing else but empty batches), the advance frontier is [MaxTime], and
\* cursor_through([MaxTime]) has returned a cursor.
CancelScenario ==
    /\ result.op = "cursor_through"
    /\ result.upper = {MaxTime}
    /\ advance_frontier = {MaxTime}
    /\ inserted = << <<1, 0, 1>>, <<1, 1, -1>> >>

\* C19 as stated: in the scenario the cursor yields the empty sequence.
C19_CursorEmpty == CancelScenario => CursorList(result.storage[1]) = << >>

\* C19, amended: in the scenario the cursor's updates cancel once their times
\* are advanced to [MaxTime] (they accumulate to nothing at every time in
\* advance of it); the stream itself is empty only if no batch under the
\* cursor still holds an update at a time before MaxTime, and while both
\* batches are pending it is the two updates as they were inserted.
C19_CursorCancels ==
    CancelScenario =>
        LET stream == CursorList(result.storage[1])
        IN  /\ Consolidate(AdvanceTimes(stream, {MaxTime})) = << >>
            /\ stream = << >> =>
                   \A i \in 1 .. Len(result.storage[1]) :
                       AdvancedTo(result.storage[1][i], {MaxTime})
            /\ (Len(pending) >= 2 /\ merging = << >>) =>
                   stream = << <<1, 0, 1>>, <<1, 1, -1>> >>

\* C19 witness: the scenario, with the two updates merged after the advance_by:
\* the layers hold a merged batch without updates and the stream is empty.
C19_Witness ==
    /\ CancelScenario
    /\ CursorList(result.storage[1]) = << >>
    /\ \E b \in LayerBatchSet(merging) : b.lower = {0} /\ b.upper = {2} /\ b.updates = << >>

\* The scenario of the frontier collapse: a spine whose advance frontier is
\* [MaxTime] and whose layer 0 holds the batch [0, MaxTime) with the updates
\* (1, t=0, +1) and (1, t=1, +1), into which an empty batch is inserted.
CollapseScenario ==
    insert_at(
        insert_at([with_effort(1) EXCEPT !.advance_frontier = {MaxTime}],
                  Some(Batch({Minimum}, {MaxTime}, {Minimum}, << <<1, 0, 1>>, <<1, 1, 1>> >>)), 0),
        Some(Batch({MaxTime}, {}, {Minimum}, << >>)), 0)

\* C20: a merge that a step begins is given the advance frontier of that
\* moment, and keeps it through every later step (advance_by included) while it
\* is in progress; completed, it yields its inputs with the times advanced to
\* that frontier, so that under [MaxTime] the updates (1, t=0, +1) and
\* (1, t=1, +1) coalesce into (1, t=MaxTime, +2).
C20_SinceAtBegin ==
    [][/\ \A k \in 1 .. Len(merging') :
            /\ Begun(merging, merging', k) =>
                   merging'[k].variant.frontier = Some(advance_frontier')
            /\ (is_in_progress(merging'[k]) /\ ~Begun(merging, merging', k)) =>
                   merging'[k].variant.frontier = merging[k].variant.frontier
            /\ is_in_progress(merging'[k]) =>
                   MergeVariant_complete(merging'[k].variant).batch[1].updates =
                       Consolidate(AdvanceTimes(
                           merging'[k].variant.b1.updates \o merging'[k].variant.b2.updates,
                           merging'[k].variant.frontier[1]))
       /\ is_in_progress(Layer(CollapseScenario, 0))
       /\ Layer(CollapseScenario, 0).variant.frontier = Some({MaxTime})
       /\ MergeVariant_complete(Layer(CollapseScenario, 0).variant).batch[1].updates =
              << <<1, MaxTime, 2>> >>]_vars

\* C20 witness: a merge begun under the advance frontier [MaxTime] is still in
\* progress with that frontier after a later advance_by, and a layer holds a
\* batch in which two +1 of data 1 have coalesced into (1, t=MaxTime, +2).
C20_Witness ==
    /\ panic = NoPanic
    /\ advance_frontier = {Minimum}
    /\ \E k \in 1 .. Len(merging) :
          /\ is_in_progress(merging[k])
          /\ merging[k].variant.frontier = Some({MaxTime})
          /\ \E b \in BatchesOf(merging[k]) : <<1, MaxTime, 2>> \in Range(b.updates)

----------------------------------------------------------------------------
(* The trace writer: close, exert, consider_merges.                        *)

\* The batch map_batches visits last: the newest batch of the spine s.
Newest(s) == map_batches(s)[Len(map_batches(s))]

\* C21 as stated: close() on a trace whose upper is not empty inserts a batch
\* whose lower and upper are both the spine's upper before the call, without
\* panicking.
C21_CloseLowerEqualsUpper ==
    (panic = NoPanic /\ upper # {}) =>
        /\ close(Self).panic = NoPanic
        /\ Newest(close(Self)).lower = upper
        /\ Newest(close(Self)).upper = upper

\* C21, amended: close() on a trace whose upper is not empty inserts, without
\* panicking, one final batch without updates whose lower (and since) is the
\* spine's upper before the call and whose upper is the empty frontier; the
\* spine's upper is then empty and a second close() changes nothing.  A batch
\* with lower = upper = self.upper is refused by insert's first assertion.
C21_CloseFinalBatch ==
    (panic = NoPanic /\ upper # {}) =>
        /\ close(Self).panic = NoPanic
        /\ close(Self).upper = {}
        /\ Newest(close(Self)) = Batch(upper, {}, upper, << >>)
        /\ close(close(Self)) = close(Self)
        /\ insert(Self, Builder_done(upper, upper, upper)).panic =
               "assertion failed: batch.lower() != batch.upper()"

\* C21 witness: the trace was closed at [MaxTime]: its newest batch is the
\* final batch [MaxTime, []), and older batches lie in the layers.
C21_Witness ==
    /\ panic = NoPanic
    /\ upper = {}
    /\ map_batches(Self) # << >>
    /\ Newest(Self) = Batch({MaxTime}, {}, {MaxTime}, << >>)
    /\ Len(map_batches(Self)) >= 3

\* The efforts exert is examined with.
Efforts == 1 .. Pow2(MaxExert)

\* ceil(log2 n): the least k with 2^k >= n.
LeastExponent(n) == CHOOSE k \in 0 .. n : Pow2(k) >= n /\ \A j \in 0 .. k - 1 : Pow2(j) < n

\* floor(log2 n): the greatest k with 2^k <= n.
GreatestExponent(n) == CHOOSE k \in 0 .. n : Pow2(k) <= n /\ Pow2(k + 1) > n

\* The layer ms holds a placeholder: an empty batch that was introduced by exert.
Placeholder(ms) ==
    \/ is_single(ms) /\ ms.batch = None
    \/ is_complete(ms) /\ ms.variant.batch = None

\* C22 as stated: exert(effort) on a trace that is not reduced introduces one
\* empty placeholder batch at layer floor(log2 effort), for every effort >= 1.
C22_ExertFloor ==
    (panic = NoPanic /\ ~reduced(Self)) =>
        \A e \in Efforts :
            exert(Self, e) = Activate(introduce_batch(Self, None, GreatestExponent(e)))

\* C22, amended: exert(effort) on a trace that is not reduced introduces one
\* empty placeholder batch at layer ceil(log2 effort), the least k with
\* 2^k >= effort (layer 0 for effort 1, 1 for 2, 2 for 3 and 4, 3 for 5 to 8),
\* and signals the activator; on a reduced trace it does nothing.
C22_ExertCeil ==
    panic = NoPanic =>
        \A e \in Efforts :
            /\ ~reduced(Self) =>
                   exert(Self, e) = Activate(introduce_batch(Self, None, LeastExponent(e)))
            /\ reduced(Self) => exert(Self, e) = Self

\* C22 witness: an exert has left a placeholder in a trace that is not
\* reduced, where introducing at layer 2 (effort 3) and at layer 1 differ.
C22_Witness ==
    /\ panic = NoPanic
    /\ activated
    /\ ~reduced(Self)
    /\ \E k \in 1 .. Len(merging) : Placeholder(merging[k])
    /\ exert(Self, 3) = Activate(introduce_batch(Self, None, 2))
    /\ exert(Self, 3) # Activate(introduce_batch(Self, None, 1))

RECURSIVE Held(_, _)
\* The pending batches p from the first one whose upper is not less or equal to
\* the frontier f (through_frontier is not in advance of it).
Held(p, f) ==
    IF p = << >> \/ ~AllInAdvance(f, Head(p).upper) THEN p ELSE Held(Tail(p), f)

\* C23 as stated: consider_merges moves the head of pending into the layers
\* exactly while its upper is in advance of the distinguish frontier (every
\* element of the upper has an element of the frontier less or equal to it).
C23_ReleasedInAdvance ==
    panic = NoPanic =>
        \A f \in Frontiers :
            LET s == distinguish_since(Self, f)
            IN  s.panic = NoPanic =>
                    /\ s.pending # << >> => ~AllInAdvance(s.pending[1].upper, f)
                    /\ (pending # << >> /\ ~AllInAdvance(pending[1].upper, f)) =>
                           s.pending = pending

\* C23, amended: consider_merges moves the head of pending into the layers
\* exactly while the distinguish frontier is in advance of that batch's upper
\* (every element of the frontier has an element of the upper less or equal to
\* it: batch.upper <= distinguish frontier); a head whose upper is not reached
\* by the frontier stays pending, with every batch behind it.
C23_ReleasedWithinFrontier ==
    panic = NoPanic =>
        /\ pending = Held(pending, through_frontier)
        /\ \A f \in Frontiers :
               LET s == distinguish_since(Self, f)
               IN  s.panic = NoPanic => s.pending = Held(pending, f)

\* C23 witness: the distinguish frontier is [1]; a batch with upper [1] was
\* moved into the layers, and the head of pending, whose upper is beyond [1]
\* (and so in advance of it), has stayed.
C23_Witness ==
    /\ panic = NoPanic
    /\ through_frontier = {1}
    /\ \E b \in LayerBatchSet(merging) : b.upper = {1} /\ b.updates # << >>
    /\ Len(pending) >= 1
    /\ AllInAdvance(pending[1].upper, through_frontier)
    /\ pending[1].upper # through_frontier

----------------------------------------------------------------------------
(* The two frontiers.                                                      *)

\* a <= b element-wise: every element of the frontier b has an element of the
\* frontier a less or equal to it.
FrontierLeq(a, b) == AllInAdvance(b, a)

\* C24 as stated: in every state distinguish_frontier <= advance_frontier.
C24_DistinguishLeqAdvance == FrontierLeq(through_frontier, advance_frontier)

\* C24, amended: the spine does not relate the two frontiers.  Both start at
\* [minimum]; advance_by(f) records f as advance_frontier and leaves
\* distinguish_frontier alone, distinguish_since(f) records f as
\* distinguish_frontier and leaves advance_frontier alone, whatever the other
\* frontier is.  distinguish_frontier <= advance_frontier holds after a call
\* exactly when the caller's frontier respects it.
C24_FrontiersIndependent ==
    panic = NoPanic =>
        \A f \in Frontiers :
            /\ advance_by(Self, f).advance_frontier = f
            /\ advance_by(Self, f).through_frontier = through_frontier
            /\ distinguish_since(Self, f).through_frontier = f
            /\ distinguish_since(Self, f).advance_frontier = advance_frontier
            /\ FrontierLeq(advance_by(Self, f).through_frontier, advance_by(Self, f).advance_frontier)
                   <=> FrontierLeq(through_frontier, f)
            /\ FrontierLeq(distinguish_since(Self, f).through_frontier,
                           distinguish_since(Self, f).advance_frontier)
                   <=> FrontierLeq(f, advance_frontier)

\* C24 witness: both frontiers were moved, the distinguish frontier to [1]
\* and the advance frontier to [MaxTime], with batches in the layers.
C24_Witness ==
    /\ panic = NoPanic
    /\ through_frontier = {1}
    /\ advance_frontier = {MaxTime}
    /\ Len(merging) >= 1
    /\ Len(pending) >= 1

----------------------------------------------------------------------------
(* The merger of the merge batcher: merge and extract.                     *)

\* The updates of a chunk list, in order.
Updates(list) == Concat(list, 1)

InAdvance(u, f) == AntichainRef_less_equal(f, u[2])

\* The updates of the sequence l whose time is in advance of f, and the others.
Beyond(l, f) == LET test(u) == InAdvance(u, f) IN SelectSeq(l, test)
Before(l, f) == LET test(u) == ~InAdvance(u, f) IN SelectSeq(l, test)

\* C26: extract splits the merged updates at the frontier upper: readied holds,
\* in the order of the input, exactly the updates whose time is not in advance
\* of upper and kept exactly the others, each update once; both stay sorted.
C26_ExtractPartitions ==
    result.op = "extract" =>
        /\ Updates(result.readied) = Before(Updates(result.merged), result.upper)
        /\ Updates(result.kept) = Beyond(Updates(result.merged), result.upper)
        /\ Len(Updates(result.readied)) + Len(Updates(result.kept))
              = Len(Updates(result.merged))
        /\ StrictlySorted(Updates(result.readied))
        /\ StrictlySorted(Updates(result.kept))

\* C26 witness: an extract at a frontier of two incomparable times that kept
\* two chunks and readied updates that lay between the kept ones.
C26_Witness ==
    /\ result.op = "extract"
    /\ Cardinality(result.upper) = 2
    /\ Len(result.kept) >= 2
    /\ \E i, j, k \in 1 .. Len(Updates(result.merged)) :
          /\ i < j /\ j < k
          /\ InAdvance(Updates(result.merged)[i], result.upper)
          /\ ~InAdvance(Updates(result.merged)[j], result.upper)
          /\ InAdvance(Updates(result.merged)[k], result.upper)

\* The times of the updates of a chunk list.
Times(list) == { u[2] : u \in Range(Updates(list)) }

\* The minimal elements of a set of times.
Minimal(times) == { t \in times : \A o \in times : less_equal(o, t) => o = t }

\* C27: after extract, called with an empty frontier, frontier is the antichain
\* of the minimal times of the kept updates: every kept time is in advance of
\* it, each of its elements is the time of a kept update, no two of them are
\* comparable, and it is empty iff nothing is kept.
C27_FrontierOfKept ==
    result.op = "extract" =>
        /\ \A t \in Times(result.kept) : AntichainRef_less_equal(result.frontier, t)
        /\ result.frontier \subseteq Times(result.kept)
        /\ \A a, b \in result.frontier : a # b => ~less_equal(a, b)
        /\ result.frontier = {} <=> result.kept = << >>
        /\ result.frontier = Minimal(Times(result.kept))

\* C27 witness: the frontier has two incomparable elements, updates at both
\* were kept in two chunks, and updates at an earlier time were readied.
C27_Witness ==
    /\ result.op = "extract"
    /\ Cardinality(result.frontier) = 2
    /\ Len(result.kept) >= 2
    /\ result.readied # << >>

----------------------------------------------------------------------------
(* The layers and the distinguish frontier.                                *)

\* Every batch of the layers m has an upper less or equal to the frontier f.
WithinFrontier(m, f) == \A b \in LayerBatchSet(m) : AllInAdvance(f, b.upper)

\* C28: in every state, every batch held in the layers has an upper that is
\* less or equal to the distinguish frontier, whatever insert, exert and
\* distinguish_since calls were made, also calls of distinguish_since that move
\* the frontier backwards.
C28_LayersWithinFrontier == WithinFrontier(merging, through_frontier)

\* C28, for the steps that do not move the distinguish frontier backwards:
\* if every batch of the layers is within the frontier before the step, so it
\* is after it.
C28_ForwardStepsKeepWithin ==
    [][(/\ WithinFrontier(merging, through_frontier)
        /\ FrontierLeq(through_frontier, through_frontier'))
           => WithinFrontier(merging', through_frontier')]_vars

\* C28 witness: the distinguish frontier was moved back behind a batch of the
\* layers, and cursor_through at that frontier has passed its check and
\* returned a cursor that holds the batch.
C28_Witness ==
    /\ result.op = "cursor_through"
    /\ result.upper = through_frontier
    /\ \E b \in LayerBatchSet(merging) :
          /\ ~AllInAdvance(through_frontier, b.upper)
          /\ b \in Range(result.storage[1])

----------------------------------------------------------------------------
(* Progress.                                                               *)

\* C29: if from some point on no batch is introduced and exert is the only
\* operation called (with any efforts >= 1), the trace eventually is reduced
\* and stays so: exert then changes nothing.
C29_ExertReduces ==
    /\ <>[][Exert]_vars => <>[](panic # NoPanic \/ reduced(Self))
    /\ [](reduced(Self) => \A e \in 1 .. MaxExert : exert(Self, e) = Self)

\* C29 witness: an exert has left the trace reduced, with the updates of
\* several inserted batches merged into the one batch that remains.
C29_Witness ==
    /\ panic = NoPanic
    /\ activated
    /\ reduced(Self)
    /\ pending = << >>
    /\ \E b \in LayerBatchSet(merging) : Merged(b) /\ BatchLen(b) >= 2 * MaxSize
    /\ \E k \in 1 .. Len(merging) : Placeholder(merging[k])

----------------------------------------------------------------------------
(* The release of the pending batches.                                     *)

RECURSIVE ReleaseHead(_, _)
\* The spine s after its first k pending batches have been introduced, head
\* first and one at a time, each at layer ceil(log2 len) of its number of updates.
ReleaseHead(s, k) ==
    IF k = 0 \/ s.panic # NoPanic THEN s
    ELSE ReleaseHead(introduce_batch([s EXCEPT !.pending = Tail(s.pending)], Some(Head(s.pending)),
                                     LeastExponent(BatchLen(Head(s.pending)))),
                     k - 1)

\* C30: the batches a call of distinguish_since releases are the first k of
\* pending, for some k, in insertion order; each is introduced at layer
\* ceil(log2 len), which is layer 0 for a batch of no or of one update; the
\* rest of pending stays as it was.
C30_ReleasedAtCeilLog ==
    [][DistinguishSince /\ panic' = NoPanic =>
         \E k \in 0 .. Len(pending) :
            /\ pending' = SubSeq(pending, k + 1, Len(pending))
            /\ merging' = ReleaseHead([Self EXCEPT !.through_frontier = through_frontier'],
                                      k).merging]_vars

\* C30 witness: a batch of three updates has left pending for layer 2 (layer 1
\* is floor(log2 3)), and the batch that follows it is still pending.
C30_Witness ==
    /\ panic = NoPanic
    /\ Len(merging) = 3
    /\ is_single(merging[3])
    /\ merging[3].batch # None
    /\ BatchLen(merging[3].batch[1]) = 3
    /\ is_vacant(merging[1]) /\ is_vacant(merging[2])
    /\ Len(pending) >= 1
    /\ pending[1].lower = merging[3].batch[1].upper

----------------------------------------------------------------------------
(* The fuel.                                                               *)

\* The fuel introduce_batch computes for a batch introduced at layer k.
Fuel(k) == (FuelPerRecord * Pow2(k)) * effort

\* The layers a batch is introduced at.
Levels == 0 .. CeilLog2(MaxSize)

\* C31: the effort is at least 1 (with_effort(0) gives effort 1); with the fuel
\* 8 * 2^k * effort of a batch introduced at layer k, apply_fuel hands its
\* caller's fuel back unchanged and, unless it panics, leaves every layer that
\* held a merge in progress as that merge's own work with the full fuel leaves
\* it: Vacant if the work completed it (the result is promoted), the worked
\* merge otherwise, whatever the layers below have consumed.
C31_FuelPerLayer ==
    /\ effort >= 1
    /\ \A k \in Levels :
          \A r \in {apply_fuel(Self, Fuel(k))} :
              /\ r.fuel = Fuel(k)
              /\ r.spine.panic = NoPanic =>
                    \A i \in Layers(Self) :
                        is_in_progress(Layer(Self, i)) =>
                            \A worked \in {MergeState_work(Layer(Self, i), Fuel(k))} :
                                Layer(r.spine, i) = IF is_complete(worked) THEN Vacant ELSE worked

\* C31 witness: two merges are in progress, the lower one needs less than the
\* fuel of a batch at layer 0 and the upper one more than the lower one would
\* leave of it, and apply_fuel does not panic on them.
C31_Witness ==
    /\ panic = NoPanic
    /\ apply_fuel(Self, Fuel(0)).spine.panic = NoPanic
    /\ \E i, j \in Layers(Self) :
          /\ i < j
          /\ is_in_progress(Layer(Self, i))
          /\ is_in_progress(Layer(Self, j))
          /\ Layer(Self, i).variant.merger.remaining < Fuel(0)
          /\ Layer(Self, j).variant.merger.remaining > Fuel(0) - Layer(Self, i).variant.merger.remaining
          /\ Layer(Self, j).variant.merger.remaining <= Fuel(0)

\* The layer above layer i of the spine s, Vacant if there is none yet.
LayerAbove(s, i) == IF i + 1 < Len(s.merging) THEN Layer(s, i + 1) ELSE Vacant

\* C32: unless apply_fuel panics, none of the layers that existed when it was
\* called is a completed Double when it returns; and for each layer i whose
\* work in round i leaves a completed merge, round i leaves layer i Vacant and
\* layer i+1 as insert of the merged batch leaves it, and a merge in progress
\* that this began at an existing layer i+1 is worked with the full fuel in
\* the same call.
C32_PromotesComplete ==
    \A k \in Levels :
        \A r \in {apply_fuel(Self, Fuel(k)).spine} :
            r.panic = NoPanic =>
                \A i \in Layers(Self) :
                    /\ ~is_complete(Layer(r, i))
                    /\ \A b \in {ApplyFuelFrom(Self, Fuel(k), 0, i)} :
                       \A worked \in {MergeState_work(Layer(b, i), Fuel(k))} :
                          is_complete(worked) =>
                             \A a \in {ApplyFuelFrom(Self, Fuel(k), 0, i + 1)} :
                                /\ is_vacant(Layer(a, i))
                                /\ Layer(a, i + 1) =
                                      MergeState_insert(LayerAbove(b, i), worked.variant.batch,
                                                        Some(advance_frontier)).state
                                /\ (i + 1 < Len(merging) /\ is_in_progress(Layer(a, i + 1))) =>
                                      \A w \in {MergeState_work(Layer(a, i + 1), Fuel(k))} :
                                          Layer(r, i + 1) = IF is_complete(w) THEN Vacant ELSE w

\* C32 witness: with the fuel of a batch at layer 0 the merge of some layer i
\* completes and meets the batch of layer i+1, so that apply_fuel begins a
\* merge there.
C32_Witness ==
    /\ panic = NoPanic
    /\ apply_fuel(Self, Fuel(0)).spine.panic = NoPanic
    /\ \E i \in Layers(Self) :
          /\ i + 1 < Len(merging)
          /\ is_in_progress(Layer(Self, i))
          /\ is_complete(MergeState_work(Layer(Self, i), Fuel(0)))
          /\ is_single(Layer(Self, i + 1))
          /\ Layer(Self, i + 1).batch # None

\* The amounts of fuel a merge with n units of work left is worked with: the
\* fuel of each level, and the amounts around n.
FuelAmounts(n) == ({ Fuel(k) : k \in Levels } \cup {n - 1, n, n + 1, 1}) \ (-1 .. 0)

\* C33: work on a merge in progress leaves it Complete iff fuel is left after
\* the merger's work; work with exactly the fuel the merger needs leaves the
\* merge in progress with no work left, and any positive fuel then completes it.
C33_CompleteIffFuelLeft ==
    \A i \in Layers(Self) :
        is_in_progress(Layer(Self, i)) =>
            \A f \in FuelAmounts(Layer(Self, i).variant.merger.remaining) :
                \A w \in {MergeVariant_work(Layer(Self, i).variant, f)} :
                    /\ w.variant.tag = "Complete" <=> w.fuel > 0
                    /\ f = Layer(Self, i).variant.merger.remaining =>
                          /\ w.variant.tag = "InProgress"
                          /\ w.variant.merger.remaining = 0
                          /\ \A g \in FuelAmounts(0) :
                                MergeVariant_work(w.variant, g).variant.tag = "Complete"

\* C33 witness: the fuel of an introduced batch was exactly what a merge
\* needed: the merge rests in progress with no work left.
C33_Witness ==
    /\ panic = NoPanic
    /\ \E i \in Layers(Self) :
          /\ is_in_progress(Layer(Self, i))
          /\ Layer(Self, i).variant.merger.remaining = 0
          /\ BatchLen(Layer(Self, i).variant.b1) + BatchLen(Layer(Self, i).variant.b2) > 0

----------------------------------------------------------------------------
(* Tidying.                                                                *)

\* introduce_batch up to the call of tidy_layers: the spine after steps 1 to 3.
BeforeTidy(s, batch, batch_index) ==
    insert_at(roll_up(apply_fuel(s, (FuelPerRecord * Pow2(batch_index)) * s.effort).spine,
                      batch_index),
              batch, batch_index)

\* The batches introduce_batch may be called with in the current state: the
\* empty batch of exert at each level, and the head of pending at its level.
Introduced ==
    { <<None, k>> : k \in Levels } \cup
    { <<Some(pending[j]), LeastExponent(BatchLen(pending[j]))>> : j \in 1 .. Len(pending) }

\* The top layer of the layers m would not be moved by tidy_layers.
TidyStable(m) ==
    (/\ Len(m) > 1
     /\ is_single(m[Len(m)])
     /\ LeastExponent(MergeState_len(m[Len(m)])) < Len(m) - 1) => ~is_vacant(m[Len(m) - 1])

\* The layers n are the layers m with the top Single moved down through Vacant
\* layers as far as its size asks for, and nothing else changed.
Tidied(m, n) ==
    IF is_single(m[Len(m)])
    THEN /\ 1 <= Len(n) /\ Len(n) <= Len(m)
         /\ n[Len(n)] = m[Len(m)]
         /\ \A i \in 1 .. Len(n) - 1 : n[i] = m[i]
         /\ \A i \in Len(n) .. Len(m) - 1 : is_vacant(m[i])
         /\ Len(n) < Len(m) => LeastExponent(MergeState_len(m[Len(m)])) < Len(n)
         /\ TidyStable(n)
    ELSE n = m

\* C34: the layers at rest are stable under tidying (a top Single above its
\* size's layer has a layer that is not Vacant below it); and for every batch
\* that may be introduced now, tidy_layers only moves the top Single down
\* through Vacant layers: every other layer, every batch and their order are
\* kept, and a top layer that is not Single is left alone.
C34_TidyMovesTopSingle ==
    /\ merging # << >> => TidyStable(merging)
    /\ \A c \in Introduced :
          \A s3 \in {BeforeTidy(Self, c[1], c[2])} :
              s3.panic = NoPanic =>
                  /\ Tidied(s3.merging, tidy_layers(s3).merging)
                  /\ introduce_batch(Self, c[1], c[2]).merging = tidy_layers(s3).merging

\* C34 witness: a batch may be introduced now that tidy_layers moves down by
\* two layers or more.
C34_Witness ==
    /\ panic = NoPanic
    /\ \E c \in Introduced :
          \E s3 \in {BeforeTidy(Self, c[1], c[2])} :
              /\ s3.panic = NoPanic
              /\ is_single(s3.merging[Len(s3.merging)])
              /\ s3.merging[Len(s3.merging)].batch # None
              /\ Len(tidy_layers(s3).merging) + 2 <= Len(s3.merging)
              /\ Len(tidy_layers(s3).merging) >= 2

----------------------------------------------------------------------------
(* reduced.                                                                *)

\* The layers that hold a real batch: one that is not a placeholder.
RealLayers == { i \in Layers(Self) : BatchesOf(Layer(Self, i)) # {} }

ExertReturns ==
    /\ panic = NoPanic
    /\ panic' = NoPanic
    /\ UNCHANGED <<inserted, advanced>>
    /\ \E e \in 1 .. MaxExert : \E s \in {exert(Self, e)} : Commit(s)

\* C36: a call of exert on a reduced trace leaves the layers, pending, upper
\* and both frontiers as they are and does not signal the activator; a call
\* that returns signals the activator iff the trace was not reduced before it.
C36_ExertOnReduced ==
    [][(ExertReturns /\ result' = NoResult) =>
         /\ reduced(Self) =>
               /\ UNCHANGED <<merging, pending, upper, advance_frontier, through_frontier>>
               /\ ~activated'
         /\ activated' <=> ~reduced(Self)]_vars

\* C36 witness: a reduced trace that holds a real batch, with two batches
\* pending, its activator not signalled by the call that left it.
C36_Witness ==
    /\ panic = NoPanic
    /\ reduced(Self)
    /\ Cardinality(RealLayers) = 1
    /\ Len(pending) >= 2
    /\ ~activated

----------------------------------------------------------------------------
(* Batches whose lower and upper are equal.                                *)

\* C37: no batch of the trace has equal lower and upper; insert of a batch
\* whose lower and upper are equal panics on its first assertion and leaves
\* the trace as it is, also when the batch continues the trace; and close on
\* a closed trace (upper is the empty frontier) changes nothing.
C37_EmptyBatchRejected ==
    /\ \A k \in 1 .. Len(map_batches(Self)) : ~BatchIsEmpty(map_batches(Self)[k])
    /\ panic = NoPanic =>
          \A f \in Frontiers :
              insert(Self, Batch(f, f, {Minimum}, << >>)) =
                  [Self EXCEPT !.panic = "assertion failed: batch.lower() != batch.upper()"]
    /\ upper = {} => close(Self) = Self

\* C37 witness: the trace was closed, its final batch is held, and an insert
\* that followed was rejected for the equal bounds of its batch.
C37_Witness ==
    /\ panic = "assertion failed: batch.lower() != batch.upper()"
    /\ upper = {}
    /\ \E k \in 1 .. Len(map_batches(Self)) : map_batches(Self)[k].upper = {}

----------------------------------------------------------------------------
(* The chunk lists of the merge batcher.                                   *)

\* Every chunk of the list is non-empty and holds at most chunk_capacity updates.
WellFormed(list) ==
    \A i \in 1 .. Len(list) : 1 <= ChunkLen(list[i]) /\ ChunkLen(list[i]) <= chunk_capacity

\* Every chunk of the stash is empty and has the target capacity.
Pooled(stash) ==
    \A i \in 1 .. Len(stash) : ChunkLen(stash[i]) = 0 /\ stash[i].capacity = chunk_capacity

\* C38: the output of merge, and the readied and kept lists of extract, hold
\* only non-empty chunks of at most chunk_capacity updates, and every chunk in
\* the stash after merge and after extract is empty and has the target capacity.
C38_ChunksWellFormed ==
    /\ result.op = "merge" => ~result.diverged /\ WellFormed(result.output) /\ Pooled(result.stash)
    /\ result.op = "extract" =>
          WellFormed(result.readied) /\ WellFormed(result.kept) /\ Pooled(result.stash)

\* C38 witness: extract has cut the merged list into two kept chunks and a
\* readied one, the merged list held a chunk that was not full, and chunks
\* are left in the stash.
C38_Witness ==
    /\ result.op = "extract"
    /\ Len(result.kept) >= 2
    /\ Len(result.readied) >= 1
    /\ Len(result.stash) >= 1
    /\ \E i \in 1 .. Len(result.merged) - 1 : ChunkLen(result.merged[i]) < chunk_capacity

====
